---------------------------- MODULE Spec2Model ----------------------------
(***************************************************************************)
(* damask.Grid (python/damask/_grid.py): a voxel grid of material IDs with *)
(* physical size, origin and a list of comments, and the transforms that   *)
(* return a new Grid.  Objects live in a heap of buffers so that aliasing  *)
(* between a receiver and the Grid a transform returns is observable.      *)
(*                                                                         *)
(* Floating-point sizes and origins are modelled as exact rationals        *)
(* <<numerator, denominator>>; numpy arrays are records                    *)
(* [shape, dtype, at] with 0-based index tuples.                           *)
(*                                                                         *)
(* damask.Colormap (python/damask/_colormap.py): colour maps between two   *)
(* colours, their reversal and shading, and the colour space conversions   *)
(* they rest on, computed in decimal fixed-point arithmetic.               *)
(***************************************************************************)
EXTENDS Integers, Sequences, FiniteSets, TLC

VARIABLES heap,      \* address -> buffer contents (ndarray or list)
          self,      \* handle of the receiver of the last call, <<>> if none
          ret,       \* handle of the Grid the last call returned, <<>> if none
          pre,       \* the receiver's field values when the last call started
          op,        \* name of the last call
          args,      \* arguments of the last call
          err,       \* exception raised by the last call, "none" if it returned
          history,   \* transforms applied since the first Grid, oldest first
          comments0, \* comments of the first Grid
          grid0,     \* field values of the first Grid when it was constructed
          clock,     \* wall clock, advancing with every reading by execution_stamp
          budget,    \* number of transforms the run may apply
          out,       \* what the last call returned when that is not a Grid, <<>> if nothing
          pool       \* the worker pool of a tessellation in progress

vars == <<heap, self, ret, pre, op, args, err, history, comments0, grid0, clock, budget,
          out, pool>>

-----------------------------------------------------------------------------
(* Bounds of the model                                                     *)

\* largest number of cells of a Grid handed to the constructor
MaxVoxels == 4
\* a first Grid of at most ChainVoxels cells is followed through MaxOps transforms,
\* a larger one through a single transform
ChainVoxels == 1
\* material IDs handed to the constructor are 0..MaxID
MaxID == 2
\* longest chain of transforms
MaxOps == 2
\* largest size of the worker pool of a tessellation (OMP_NUM_THREADS)
MaxWorkers == 2
\* a colour map has at most MaxColors colours
MaxColors == 3
\* a colour is taken through at most MaxSteps conversions
MaxSteps == 4
\* an iterable handed to show_progress has at most MaxItems items
MaxItems == 3
\* the clock advances at most MaxTicks times while a generator runs
MaxTicks == 2

-----------------------------------------------------------------------------
(* Exact rational arithmetic standing in for float64                       *)

Abs(x) == IF x < 0 THEN -x ELSE x

Min(a, b) == IF a < b THEN a ELSE b

Max(a, b) == IF a > b THEN a ELSE b

RECURSIVE GCD(_, _)
GCD(a, b) == IF b = 0 THEN a ELSE GCD(b, a % b)

\* the rational n/d (d > 0) in lowest terms
Rat(n, d) == LET g == GCD(Abs(n), d) IN IF g = 0 THEN <<0, 1>> ELSE <<n \div g, d \div g>>

RInt(k) == <<k, 1>>

RAdd(p, q) == Rat(p[1] * q[2] + q[1] * p[2], p[2] * q[2])

RSub(p, q) == Rat(p[1] * q[2] - q[1] * p[2], p[2] * q[2])

RMul(p, q) == Rat(p[1] * q[1], p[2] * q[2])

\* p / q for q > 0
RDiv(p, q) == Rat(p[1] * q[2], p[2] * q[1])

RLess(p, q) == p[1] * q[2] < q[1] * p[2]

\* elementwise operations on 3-vectors of rationals (numpy broadcasting)
VInt(v) == [i \in 1..Len(v) |-> RInt(v[i])]

VAdd(u, v) == [i \in 1..3 |-> RAdd(u[i], v[i])]

VSub(u, v) == [i \in 1..3 |-> RSub(u[i], v[i])]

VMul(u, v) == [i \in 1..3 |-> RMul(u[i], v[i])]

VDiv(u, v) == [i \in 1..3 |-> RDiv(u[i], v[i])]

-----------------------------------------------------------------------------
(* numpy arrays                                                            *)

\* Optional[int]: <<>> is None, <<v>> is the integer v
None == <<>>

Some(v) == <<v>>

\* index tuples of an array of the given 3-d shape
Idx(shape) == (0..shape[1]-1) \X (0..shape[2]-1) \X (0..shape[3]-1)

NDArray(shape, dtype, at) == [shape |-> shape, dtype |-> dtype, at |-> at]

\* number of elements
Prod(shape) == shape[1] * shape[2] * shape[3]

\* set of values held by an array
Values(m) == {m.at[i] : i \in DOMAIN m.at}

\* np.nanmax of an integer array
np_nanmax(m) == CHOOSE v \in Values(m) : \A w \in Values(m) : w <= v

\* indices selected by the Python slice [lo:hi:-1] on an axis of n entries
slice_rev(lo, hi, n) ==
    LET start == IF lo = None THEN n - 1
                 ELSE IF lo[1] < 0 THEN Max(lo[1] + n, -1) ELSE Min(lo[1], n - 1)
        stop  == IF hi = None THEN -1
                 ELSE IF hi[1] < 0 THEN Max(hi[1] + n, -1) ELSE Min(hi[1], n - 1)
    IN  [k \in 1..Max(0, start - stop) |-> start - (k - 1)]

\* np.take(m, idxs, axis): the entries idxs (a sequence) along axis
np_take(m, idxs, axis) ==
    LET shp == [m.shape EXCEPT ![axis + 1] = Len(idxs)]
    IN  NDArray(shp, m.dtype,
                [i \in Idx(shp) |-> m.at[[i EXCEPT ![axis + 1] = idxs[i[axis + 1] + 1]]]])

\* np.concatenate([a, b], axis)
np_concatenate(a, b, axis) ==
    LET n   == a.shape[axis + 1]
        shp == [a.shape EXCEPT ![axis + 1] = n + b.shape[axis + 1]]
    IN  NDArray(shp, a.dtype,
                [i \in Idx(shp) |-> IF i[axis + 1] < n THEN a.at[i]
                                    ELSE b.at[[i EXCEPT ![axis + 1] = i[axis + 1] - n]]])

\* np.roll(m, 1, axes) in the place of np.flip
np_flip_rolled(m, axes) ==
    NDArray(m.shape, m.dtype,
            [i \in Idx(m.shape) |->
                m.at[[a \in 1..3 |-> IF (a - 1) \in axes THEN (i[a] + m.shape[a] - 1) % m.shape[a]
                                     ELSE i[a]]]])

\* np.flip(m, axes): reverse the order along every axis listed in axes
np_flip(m, axes) ==
    NDArray(m.shape, m.dtype,
            [i \in Idx(m.shape) |->
                m.at[[a \in 1..3 |-> IF (a - 1) \in axes THEN m.shape[a] - 1 - i[a] ELSE i[a]]]])

\* bounds (start, stop) of the Python slice [lo:hi] on an axis of n entries
slice_fwd(lo, hi, n) ==
    LET start == IF lo < 0 THEN Max(lo + n, 0) ELSE Min(lo, n)
        stop  == IF hi < 0 THEN Max(hi + n, 0) ELSE Min(hi, n)
    IN  <<start, Max(start, stop)>>

\* np.clip(x, lo, hi) = minimum(maximum(x, lo), hi), elementwise on 3-vectors
np_clip(x, lo, hi) == [i \in 1..3 |-> Min(Max(x[i], lo), hi[i])]

np_minimum(u, v) == [i \in 1..3 |-> Min(u[i], v[i])]

\* elementwise integer vector arithmetic
IAdd(u, v) == [i \in 1..3 |-> u[i] + v[i]]

ISub(u, v) == [i \in 1..3 |-> u[i] - v[i]]

INeg(u) == [i \in 1..3 |-> -u[i]]

\* np.full(shape, fill, dtype)
np_full(shape, fill, dtype) == NDArray(shape, dtype, [i \in Idx(shape) |-> fill])

\* m.flatten(): z runs fastest
flatten_C(m) ==
    [p \in 1..Prod(m.shape) |->
        m.at[<<(p - 1) \div (m.shape[2] * m.shape[3]),
               ((p - 1) \div m.shape[3]) % m.shape[2],
               (p - 1) % m.shape[3]>>]]

\* m.flatten(order='F'): x runs fastest, as a sequence
flatten_F(m) ==
    [p \in 1..Prod(m.shape) |->
        m.at[<<(p - 1) % m.shape[1],
               ((p - 1) \div m.shape[1]) % m.shape[2],
               (p - 1) \div (m.shape[1] * m.shape[2])>>]]

\* seq.reshape(shape, order='F')
reshape_F(seq, shape, dtype) ==
    NDArray(shape, dtype,
            [i \in Idx(shape) |-> seq[1 + i[1] + shape[1] * (i[2] + shape[2] * i[3])]])

\* np.unique(a): the distinct values of a sequence or array, ascending
np_unique(vals) ==
    [k \in 1..Cardinality(vals) |->
        CHOOSE v \in vals : Cardinality({w \in vals : w < v}) = k - 1]

\* positions counted from 1
unique_inverse_from1(vals, v) == Cardinality({w \in vals : w <= v})

\* the inverse of np.unique(..., return_inverse=True): position of v in np.unique
unique_inverse(vals, v) == Cardinality({w \in vals : w < v})

\* pd.unique(a): the distinct values in order of first appearance
RECURSIVE pd_unique_from(_, _, _)
pd_unique_from(a, k, seen) ==
    IF k > Len(a) THEN seen
    ELSE pd_unique_from(a, k + 1,
                        IF \E j \in 1..Len(seen) : seen[j] = a[k] THEN seen ELSE Append(seen, a[k]))

pd_unique(a) == pd_unique_from(a, 1, <<>>)

\* np.argsort(v) of distinct values: 0-based positions in ascending order of value
np_argsort(v) ==
    [k \in 1..Len(v) |->
        (CHOOSE j \in 1..Len(v) : Cardinality({i \in 1..Len(v) : v[i] < v[j]}) = k - 1) - 1]

\* np.searchsorted(v, x, sorter=sorter): leftmost insertion point of x in v[sorter]
np_searchsorted(v, x, sorter) ==
    Cardinality({k \in 1..Len(sorter) : v[sorter[k] + 1] < x})

\* floor of the rational n/d, d > 0
Floor(n, d) == n \div d

\* scipy.ndimage.zoom with order=0: the output has the requested shape and output
\* index o reads the input at coordinate o*(n_in-1)/(n_out-1) rounded to the nearest
\* index, floor(c + 1/2); the coordinate never leaves the array, so the boundary
\* mode has no effect
zoom_index(o, n_in, n_out) ==
    IF n_out = 1 THEN 0 ELSE Floor(2 * o * (n_in - 1) + (n_out - 1), 2 * (n_out - 1))

ndimage_zoom(m, out_shape, mode) ==
    NDArray(out_shape, m.dtype,
            [i \in Idx(out_shape) |->
                m.at[[a \in 1..3 |-> zoom_index(i[a], m.shape[a], out_shape[a])]]])

\* index read for position c on an axis of n entries under a scipy boundary mode
extend(c, n, mode) ==
    IF mode = "wrap" THEN c % n ELSE Min(Max(c, 0), n - 1)

\* the window scipy.ndimage.generic_filter hands to its function at index i: the
\* cube of edge `size` centred with size // 2 entries below i, flattened in C order
\* (last axis fastest), as a sequence
filter_window(m, i, size, mode) ==
    [p \in 1..(size * size * size) |->
        LET d == <<(p - 1) \div (size * size), ((p - 1) \div size) % size, (p - 1) % size>>
        IN  m.at[[a \in 1..3 |-> extend(i[a] + d[a] - (size \div 2), m.shape[a], mode)]]]

\* values of a sequence
Range(seq) == {seq[k] : k \in 1..Len(seq)}

\* number of times v occurs in seq
Count(seq, v) == Cardinality({k \in 1..Len(seq) : seq[k] = v})

\* np.rot90(m, k, axes): k quarter turns in the plane of the two axes
np_rot90(m, k, axes) ==
    LET a0 == axes[1] + 1
        a1 == axes[2] + 1
        n0 == m.shape[a0]
        n1 == m.shape[a1]
        kk == k % 4
        turned == [m.shape EXCEPT ![a0] = n1, ![a1] = n0]
    IN  IF kk = 0 THEN m
        ELSE IF kk = 2 THEN np_flip(m, {axes[1], axes[2]})
        ELSE IF kk = 1
        THEN NDArray(turned, m.dtype,
                     [i \in Idx(turned) |-> m.at[[i EXCEPT ![a0] = i[a1], ![a1] = n1 - 1 - i[a0]]]])
        ELSE NDArray(turned, m.dtype,
                     [i \in Idx(turned) |-> m.at[[i EXCEPT ![a0] = n0 - 1 - i[a1], ![a1] = i[a0]]]])

\* scipy.ndimage.rotate(m, angle, axes, order=0) for an angle that is a whole number
\* of quarter turns: the output plane is the bounding box of the turned input plane,
\* and nearest-neighbour sampling reads exactly one input cell per output cell
ndimage_rotate(m, angle, axes, cval) == np_rot90(m, angle \div 90, axes)

\* np.rint(x) of the rational n/d: nearest integer, halves to the even neighbour
np_rint(n, d) ==
    LET f == Floor(n, d)
        twice == 2 * (n - f * d)
    IN  IF twice < d THEN f
        ELSE IF twice > d THEN f + 1
        ELSE IF f % 2 = 0 THEN f ELSE f + 1

\* np.roll(m, shift, (0,1,2)) of a function over index tuples of the given shape
np_roll(f, shape, shift) ==
    [i \in Idx(shape) |-> f[[a \in 1..3 |-> (i[a] - shift[a]) % shape[a]]]]

\* p-th power of a rational, p a positive integer
RECURSIVE RPow(_, _)
RPow(x, p) == IF p = 1 THEN x ELSE RMul(x, RPow(x, p - 1))

RECURSIVE Pow2(_)
Pow2(e) == IF e = 0 THEN 1 ELSE 2 * Pow2(e - 1)

RAbs(x) == <<Abs(x[1]), x[2]>>

-----------------------------------------------------------------------------
(* Python values with their identity                                       *)

\* a freshly allocated value, or one that shares the buffer at address ref
Temp(v) == [val |-> v, ref |-> 0]

View(v, a) == [val |-> v, ref |-> a]

\* the next free address of heap h
Alloc(h) == CHOOSE a \in 1..(Cardinality(DOMAIN h) + 1) :
                /\ a \notin DOMAIN h
                /\ \A b \in 1..(Cardinality(DOMAIN h) + 1) : b \notin DOMAIN h => a <= b

\* heap h with value v stored at the new address Alloc(h)
Store(h, v) == h @@ (Alloc(h) :> v)

NoGrid == <<>>

Raise(h, e) == [err |-> e, heap |-> h, obj |-> NoGrid]

-----------------------------------------------------------------------------
(* Grid: property setters and constructor                                  *)

\* dtypes of np.sctypes['float'] and np.sctypes['int']
FloatTypes == {"float16", "float32", "float64"}

IntTypes == {"int8", "int16", "int32", "int64"}

\* material.astype(int)
astype_int(m) == NDArray(m.shape, "int64", m.at)

\* material setter that keeps the array it is handed instead of copying it
material_setter_nocopy(h, material) ==
    IF Len(material.val.shape) # 3
    THEN [err |-> "ValueError", heap |-> h, addr |-> 0]
    ELSE IF material.val.dtype \notin FloatTypes /\ material.val.dtype \notin IntTypes
    THEN [err |-> "TypeError", heap |-> h, addr |-> 0]
    ELSE IF material.ref # 0 THEN [err |-> "none", addr |-> material.ref, heap |-> h]
    ELSE [err |-> "none", addr |-> Alloc(h), heap |-> Store(h, material.val)]

\* Grid.material setter: validates, then stores a copy
material_setter(h, material) ==
    IF Len(material.val.shape) # 3
    THEN [err |-> "ValueError", heap |-> h, addr |-> 0]
    ELSE IF material.val.dtype \notin FloatTypes /\ material.val.dtype \notin IntTypes
    THEN [err |-> "TypeError", heap |-> h, addr |-> 0]
    ELSE [err |-> "none", addr |-> Alloc(h),
          heap |-> Store(h, IF material.val.dtype \in FloatTypes
                            THEN astype_int(material.val) ELSE material.val)]

\* size setter that checks the length only
size_setter_nocheck(h, size) ==
    IF Len(size.val) # 3
    THEN [err |-> "ValueError", heap |-> h, addr |-> 0]
    ELSE [err |-> "none", addr |-> Alloc(h), heap |-> Store(h, size.val)]

\* Grid.size setter
size_setter(h, size) ==
    IF Len(size.val) # 3 \/ \E i \in 1..Len(size.val) : RLess(size.val[i], RInt(0))
    THEN [err |-> "ValueError", heap |-> h, addr |-> 0]
    ELSE [err |-> "none", addr |-> Alloc(h), heap |-> Store(h, size.val)]

\* Grid.origin setter
origin_setter(h, origin) ==
    IF Len(origin.val) # 3
    THEN [err |-> "ValueError", heap |-> h, addr |-> 0]
    ELSE [err |-> "none", addr |-> Alloc(h), heap |-> Store(h, origin.val)]

\* Grid.comments setter: a list is rebuilt entry by entry, anything else is wrapped
comments_setter(h, comments) ==
    [err |-> "none", addr |-> Alloc(h),
     heap |-> Store(h, IF comments.val.islist
                       THEN [i \in 1..Len(comments.val.v) |-> comments.val.v[i]]
                       ELSE <<comments.val.v>>)]

PyList(items) == [islist |-> TRUE, v |-> items]

PyStr(s) == [islist |-> FALSE, v |-> s]

\* Grid.__init__: the four setters in order; an exception leaves no Grid
Grid__init__(h, material, size, origin, comments) ==
    LET r1 == material_setter(h, material) IN
    IF r1.err # "none" THEN Raise(h, r1.err) ELSE
    LET r2 == size_setter(r1.heap, size) IN
    IF r2.err # "none" THEN Raise(h, r2.err) ELSE
    LET r3 == origin_setter(r2.heap, origin) IN
    IF r3.err # "none" THEN Raise(h, r3.err) ELSE
    LET r4 == comments_setter(r3.heap, IF comments = None THEN Temp(PyList(<<>>)) ELSE comments[1])
    IN  [err |-> "none", heap |-> r4.heap,
         obj |-> [material |-> r1.addr, size |-> r2.addr,
                  origin |-> r3.addr, comments |-> r4.addr]]

\* Grid.cells
cells(h, g) == h[g.material].shape

\* the size handed on as it is
rescaled_size_keep(h, g, shape) == h[g.size]

\* self.size/self.cells*np.asarray(mat.shape)
rescaled_size(h, g, shape) == VMul(VDiv(h[g.size], VInt(cells(h, g))), VInt(shape))

\* Grid.__eq__ on the field values of two Grids; np.allclose of exact rationals
Grid__eq__(other, me) ==
    /\ other.size = me.size
    /\ other.origin = me.origin
    /\ other.material.shape = me.material.shape
    /\ \A i \in Idx(me.material.shape) : other.material.at[i] = me.material.at[i]

\* the receiver's fields as the expressions self.material, self.size, ...
self_material(h, g) == View(h[g.material], g.material)

self_size(h, g) == View(h[g.size], g.size)

self_origin(h, g) == View(h[g.origin], g.origin)

self_comments(h, g) == View(h[g.comments], g.comments)

\* stamp that leaves out the function name
execution_stamp_noname(class_name, function_name, now) ==
    <<"damask.", class_name, " v", "_version", " (", ToString(now), ")">>

\* util.execution_stamp: 'damask.<class>[.<function>] v<version> (<now>)' as its pieces
execution_stamp(class_name, function_name, now) ==
    LET _function_name == IF function_name = None THEN <<>> ELSE <<".", function_name[1]>>
    IN  <<"damask.", class_name>> \o _function_name \o <<" v", "_version", " (", ToString(now), ")">>

\* self.comments + [util.execution_stamp('Grid', name)]: a new list
comments_plus_stamp(h, g, name, now) ==
    Temp(PyList(h[g.comments] \o <<execution_stamp("Grid", Some(name), now)>>))

-----------------------------------------------------------------------------
(* Grid transforms.  Each takes the heap h, the receiver g, its arguments  *)
(* and the time now, and returns [err, heap, obj].                         *)

valid == <<"x", "y", "z">>

\* set(directions).issubset(valid)
directions_valid(directions) ==
    \A k \in 1..Len(directions) : \E v \in 1..3 : valid[v] = directions[k]

\* valid.index(d)
valid_index(d) == (CHOOSE v \in 1..3 : valid[v] = d) - 1

\* d in directions
In(d, directions) == \E k \in 1..Len(directions) : directions[k] = d

\* mirror step that always appends the whole reversed array
mirror_axis_reflect(mat, limits, axis) ==
    np_concatenate(mat, np_take(mat, slice_rev(None, None, mat.shape[axis + 1]), axis), axis)

\* mat = np.concatenate([mat, mat[... limits[0]:limits[1]:-1 ...]], axis)
mirror_axis(mat, limits, axis) ==
    np_concatenate(mat, np_take(mat, slice_rev(limits[1], limits[2], mat.shape[axis + 1]), axis), axis)

\* Grid.mirror
mirror(h, g, directions, reflect, now) ==
    IF ~directions_valid(directions) THEN Raise(h, "ValueError") ELSE
    LET limits == IF reflect THEN <<None, None>> ELSE <<Some(-2), Some(0)>>
        mat0 == h[g.material]
        mat1 == IF In("x", directions) THEN mirror_axis(mat0, limits, 0) ELSE mat0
        mat2 == IF In("y", directions) THEN mirror_axis(mat1, limits, 1) ELSE mat1
        mat3 == IF In("z", directions) THEN mirror_axis(mat2, limits, 2) ELSE mat2
    IN  Grid__init__(h, Temp(mat3),
                     Temp(rescaled_size(h, g, mat3.shape)),
                     self_origin(h, g),
                     Some(comments_plus_stamp(h, g, "mirror", now)))

\* flip that does not hand the origin on, so that the constructor's default applies
flip_noorigin(h, g, directions, now) ==
    IF ~directions_valid(directions) THEN Raise(h, "ValueError") ELSE
    LET axes == [k \in 1..Len(directions) |-> valid_index(directions[k])]
    IN  IF \E j, k \in 1..Len(axes) : j # k /\ axes[j] = axes[k] THEN Raise(h, "ValueError") ELSE
        Grid__init__(h, View(np_flip(h[g.material], {axes[k] : k \in 1..Len(axes)}), g.material),
                     self_size(h, g),
                     Temp(<<RInt(0), RInt(0), RInt(0)>>),
                     Some(comments_plus_stamp(h, g, "flip", now)))

\* Grid.flip; np.flip rejects an axis that is listed twice
flip(h, g, directions, now) ==
    IF ~directions_valid(directions) THEN Raise(h, "ValueError") ELSE
    LET axes == [k \in 1..Len(directions) |-> valid_index(directions[k])]
    IN  IF \E j, k \in 1..Len(axes) : j # k /\ axes[j] = axes[k] THEN Raise(h, "ValueError") ELSE
        Grid__init__(h, View(np_flip(h[g.material], {axes[k] : k \in 1..Len(axes)}), g.material),
                     self_size(h, g),
                     self_origin(h, g),
                     Some(comments_plus_stamp(h, g, "flip", now)))

\* Grid.renumber
renumber(h, g, now) ==
    LET m == h[g.material]
        renumbered == [i \in Idx(m.shape) |-> unique_inverse(Values(m), m.at[i])]
    IN  Grid__init__(h, Temp(NDArray(m.shape, "int64", renumbered)),
                     self_size(h, g),
                     self_origin(h, g),
                     Some(comments_plus_stamp(h, g, "renumber", now)))

\* material[material == f] = t: the mask is taken from the array being written
masked_assign_sequential(material, selfmat, f, t) ==
    [material EXCEPT !.at = [i \in DOMAIN material.at |->
                                IF material.at[i] = f THEN t ELSE material.at[i]]]

\* material[self.material == f] = t
masked_assign(material, selfmat, f, t) ==
    [material EXCEPT !.at = [i \in DOMAIN material.at |->
                                IF selfmat.at[i] = f THEN t ELSE material.at[i]]]

\* for f,t in zip(from_material, to_material): material[self.material==f] = t
RECURSIVE substitute_loop(_, _, _, _, _)
substitute_loop(material, selfmat, from_material, to_material, k) ==
    IF k > Min(Len(from_material), Len(to_material)) THEN material
    ELSE substitute_loop(masked_assign(material, selfmat, from_material[k], to_material[k]),
                         selfmat, from_material, to_material, k + 1)

\* material = self.material.copy()
substitute_copy(h, g) == Temp(h[g.material])

\* Grid.substitute: the loop writes into the array `material` names
substitute(h, g, from_material, to_material, now) ==
    LET material == substitute_copy(h, g)
        written  == substitute_loop(material.val, h[g.material], from_material, to_material, 1)
        h1       == IF material.ref = 0 THEN h ELSE [h EXCEPT ![material.ref] = written]
    IN  Grid__init__(h1, [material EXCEPT !.val = written],
                     self_size(h1, g),
                     self_origin(h1, g),
                     Some(comments_plus_stamp(h1, g, "substitute", now)))

\* Grid.sort
sort(h, g, now) ==
    LET m        == h[g.material]
        a        == flatten_F(m)
        from_ma  == pd_unique(a)
        sort_idx == np_argsort(from_ma)
        uniq     == np_unique(Values(m))
        ma       == [p \in 1..Len(a) |->
                        uniq[sort_idx[np_searchsorted(from_ma, a[p], sort_idx) + 1] + 1]]
    IN  Grid__init__(h, Temp(reshape_F(ma, m.shape, m.dtype)),
                     self_size(h, g),
                     self_origin(h, g),
                     Some(comments_plus_stamp(h, g, "sort", now)))

\* canvas[ll:ur] = material[LL:UR] on all three axes; numpy broadcasts a source
\* extent of 1 and rejects any other mismatch of extents
slice_assign(canvas, ll, ur, material, LL, UR) ==
    LET d == [a \in 1..3 |-> slice_fwd(ll[a], ur[a], canvas.shape[a])]
        s == [a \in 1..3 |-> slice_fwd(LL[a], UR[a], material.shape[a])]
        dn == [a \in 1..3 |-> d[a][2] - d[a][1]]
        sn == [a \in 1..3 |-> s[a][2] - s[a][1]]
    IN  IF \E a \in 1..3 : sn[a] # dn[a] /\ sn[a] # 1 THEN [err |-> "ValueError", val |-> canvas]
        ELSE [err |-> "none",
              val |-> [canvas EXCEPT !.at = [i \in DOMAIN canvas.at |->
                          IF \A a \in 1..3 : d[a][1] <= i[a] /\ i[a] < d[a][2]
                          THEN material.at[[a \in 1..3 |->
                                   IF sn[a] = dn[a] THEN s[a][1] + (i[a] - d[a][1]) ELSE s[a][1]]]
                          ELSE canvas.at[i]]]]

\* bounds whose upper ends stop one cell short
canvas_bounds_short(self_cells, cells_, offset_) ==
    LET one == <<1, 1, 1>>
    IN  [LL |-> np_clip(offset_,                   0, np_minimum(self_cells, IAdd(cells_, offset_))),
         UR |-> np_clip(IAdd(offset_, cells_),     0, ISub(np_minimum(self_cells, IAdd(cells_, offset_)), one)),
         ll |-> np_clip(INeg(offset_),             0, np_minimum(cells_, ISub(self_cells, offset_))),
         ur |-> np_clip(ISub(self_cells, offset_), 0, ISub(np_minimum(cells_, ISub(self_cells, offset_)), one))]

\* bounds in which the old block and its place in the new grid have changed places
canvas_bounds_swapped(self_cells, cells_, offset_) ==
    [LL |-> np_clip(INeg(offset_),              0, np_minimum(cells_, ISub(self_cells, offset_))),
     UR |-> np_clip(ISub(self_cells, offset_),  0, np_minimum(cells_, ISub(self_cells, offset_))),
     ll |-> np_clip(offset_,                    0, np_minimum(self_cells, IAdd(cells_, offset_))),
     ur |-> np_clip(IAdd(offset_, cells_),      0, np_minimum(self_cells, IAdd(cells_, offset_)))]

\* LL, UR: the block of the old grid that is kept; ll, ur: where it goes in the new
canvas_bounds(self_cells, cells_, offset_) ==
    [LL |-> np_clip(offset_,                    0, np_minimum(self_cells, IAdd(cells_, offset_))),
     UR |-> np_clip(IAdd(offset_, cells_),      0, np_minimum(self_cells, IAdd(cells_, offset_))),
     ll |-> np_clip(INeg(offset_),              0, np_minimum(cells_, ISub(self_cells, offset_))),
     ur |-> np_clip(ISub(self_cells, offset_),  0, np_minimum(cells_, ISub(self_cells, offset_)))]

\* Grid.canvas
canvas(h, g, cells_arg, offset, fill, now) ==
    LET m       == h[g.material]
        offset_ == IF offset # None THEN offset[1] ELSE <<0, 0, 0>>
        cells_  == IF cells_arg # None THEN cells_arg[1] ELSE cells(h, g)
        blank   == np_full(cells_, IF fill = None THEN np_nanmax(m) + 1 ELSE fill[1], m.dtype)
        b       == canvas_bounds(cells(h, g), cells_, offset_)
        filled  == slice_assign(blank, b.ll, b.ur, m, b.LL, b.UR)
    IN  IF filled.err # "none" THEN Raise(h, filled.err) ELSE
        Grid__init__(h, Temp(filled.val),
                     Temp(rescaled_size(h, g, filled.val.shape)),
                     Temp(VAdd(h[g.origin], VDiv(VMul(VInt(offset_), h[g.size]), VInt(cells(h, g))))),
                     Some(comments_plus_stamp(h, g, "canvas", now)))

\* scale that keeps the spacing instead of the size
scale_spacing(h, g, cells_arg, periodic, now) ==
    Grid__init__(h, Temp(ndimage_zoom(h[g.material], cells_arg,
                                      IF periodic THEN "wrap" ELSE "nearest")),
                 Temp(rescaled_size(h, g, cells_arg)),
                 self_origin(h, g),
                 Some(comments_plus_stamp(h, g, "scale", now)))

\* Grid.scale
scale(h, g, cells_arg, periodic, now) ==
    Grid__init__(h, Temp(ndimage_zoom(h[g.material], cells_arg,
                                      IF periodic THEN "wrap" ELSE "nearest")),
                 self_size(h, g),
                 self_origin(h, g),
                 Some(comments_plus_stamp(h, g, "scale", now)))

\* mostFrequent taking the largest of the equally frequent IDs
mostFrequent_largest(arr, selection) ==
    LET me == arr[(Len(arr) \div 2) + 1]
    IN  IF selection = None \/ me \in Range(selection[1])
        THEN CHOOSE v \in Range(arr) :
                 \A w \in Range(arr) : Count(arr, w) < Count(arr, v)
                                       \/ (Count(arr, w) = Count(arr, v) /\ w <= v)
        ELSE me

\* mostFrequent of Grid.clean: np.unique sorts, np.argmax takes the first maximum
mostFrequent(arr, selection) ==
    LET me == arr[(Len(arr) \div 2) + 1]
    IN  IF selection = None \/ me \in Range(selection[1])
        THEN CHOOSE v \in Range(arr) :
                 \A w \in Range(arr) : Count(arr, w) < Count(arr, v)
                                       \/ (Count(arr, w) = Count(arr, v) /\ v <= w)
        ELSE me

\* Grid.clean
clean(h, g, stencil, selection, periodic, now) ==
    LET m    == h[g.material]
        size == IF selection = None THEN stencil ELSE (stencil \div 2) * 2 + 1
        mode == IF periodic THEN "wrap" ELSE "nearest"
    IN  Grid__init__(h, Temp(NDArray(m.shape, m.dtype,
                                     [i \in Idx(m.shape) |->
                                         mostFrequent(filter_window(m, i, size, mode), selection)])),
                     self_size(h, g),
                     self_origin(h, g),
                     Some(comments_plus_stamp(h, g, "clean", now)))

\* tainted_neighborhood that lets a voxel's own ID trigger
tainted_neighborhood_own(stencil, trigger) ==
    LET me == stencil[(Len(stencil) \div 2) + 1]
    IN  IF Len(trigger) = 0
        THEN \E k \in 1..Len(stencil) : stencil[k] # me
        ELSE \E k \in 1..Len(stencil) : stencil[k] \in Range(trigger)

\* tainted_neighborhood of Grid.vicinity_offset
tainted_neighborhood(stencil, trigger) ==
    LET me == stencil[(Len(stencil) \div 2) + 1]
    IN  IF Len(trigger) = 0
        THEN \E k \in 1..Len(stencil) : stencil[k] # me
        ELSE \E k \in 1..Len(stencil) : stencil[k] \in Range(trigger) \ {me}

\* Grid.vicinity_offset
vicinity_offset(h, g, vicinity, offset, trigger, periodic, now) ==
    LET m       == h[g.material]
        offset_ == IF offset = None THEN np_nanmax(m) + 1 ELSE offset[1]
        mode    == IF periodic THEN "wrap" ELSE "nearest"
        mask    == [i \in Idx(m.shape) |->
                       tainted_neighborhood(filter_window(m, i, 1 + 2 * vicinity, mode), trigger)]
    IN  Grid__init__(h, Temp(NDArray(m.shape, m.dtype,
                                     [i \in Idx(m.shape) |->
                                         IF mask[i] THEN m.at[i] + offset_ ELSE m.at[i]])),
                     self_size(h, g),
                     self_origin(h, g),
                     Some(comments_plus_stamp(h, g, "vicinity_offset", now)))

\* one pass of the loop of Grid.rotate: rotate by angle (degrees) in the plane axes
rotate_step(material, angle, axes, cval) ==
    LET material_temp == ndimage_rotate(material.val, angle, axes, cval)
    IN  IF Prod(material_temp.shape) # Prod(material.val.shape)
        THEN Temp(material_temp)
        ELSE [material EXCEPT !.val = np_rot90(material.val, np_rint(angle, 90), axes)]

\* rotate applying the first Euler angle first and the last one last
rotate_first_to_last(h, g, R, fill, now) ==
    LET cval == IF fill = None THEN np_nanmax(h[g.material]) + 1 ELSE fill[1]
        m1 == rotate_step(self_material(h, g), R[1], <<0, 1>>, cval)
        m2 == rotate_step(m1, R[2], <<1, 2>>, cval)
        material == rotate_step(m2, R[3], <<0, 1>>, cval)
        spacing == VDiv(h[g.size], VInt(cells(h, g)))
        origin == VSub(h[g.origin],
                       VMul(VMul(VInt(ISub(material.val.shape, cells(h, g))),
                                 <<Rat(1, 2), Rat(1, 2), Rat(1, 2)>>), spacing))
    IN  Grid__init__(h, material,
                     Temp(rescaled_size(h, g, material.val.shape)),
                     Temp(origin),
                     Some(comments_plus_stamp(h, g, "rotate", now)))

\* Grid.rotate; R is given by its Euler angles R.as_Euler_angles(degrees=True)
rotate(h, g, R, fill, now) ==
    LET cval == IF fill = None THEN np_nanmax(h[g.material]) + 1 ELSE fill[1]
        m1 == rotate_step(self_material(h, g), R[3], <<0, 1>>, cval)
        m2 == rotate_step(m1, R[2], <<1, 2>>, cval)
        material == rotate_step(m2, R[1], <<0, 1>>, cval)
        spacing == VDiv(h[g.size], VInt(cells(h, g)))
        origin == VSub(h[g.origin],
                       VMul(VMul(VInt(ISub(material.val.shape, cells(h, g))),
                                 <<Rat(1, 2), Rat(1, 2), Rat(1, 2)>>), spacing))
    IN  Grid__init__(h, material,
                     Temp(rescaled_size(h, g, material.val.shape)),
                     Temp(origin),
                     Some(comments_plus_stamp(h, g, "rotate", now)))

\* grid_filters.coordinates0_point(cells, size, origin): cell centres
coordinates0_point(cells_, size, origin) ==
    [i \in Idx(cells_) |->
        [a \in 1..3 |-> RAdd(origin[a],
                             RMul(RDiv(size[a], RInt(cells_[a])), Rat(2 * i[a] + 1, 2)))]]

\* the coordinates taken as they are, not relative to the radii
outside_primitive_unscaled(x, r, exponent) ==
    LET q == x
    IN  IF exponent.inf
        THEN \/ \E a \in 1..3 : RLess(RInt(1), RAbs(q[a]))
             \/ Cardinality({a \in 1..3 : RAbs(q[a]) = RInt(1)}) > 1
        ELSE LET t == [a \in 1..3 |-> RPow(q[a], Pow2(exponent.e))]
             IN  RLess(RInt(1), RAdd(RAdd(t[1], t[2]), t[3]))

\* np.sum(np.power(x/r, 2.0**exponent)) > 1.0 for one point x; an infinite exponent
\* sends |x/r| < 1 to 0, |x/r| = 1 to 1 and |x/r| > 1 to infinity
outside_primitive(x, r, exponent) ==
    LET q == [a \in 1..3 |-> RDiv(x[a], r[a])]
    IN  IF exponent.inf
        THEN \/ \E a \in 1..3 : RLess(RInt(1), RAbs(q[a]))
             \/ Cardinality({a \in 1..3 : RAbs(q[a]) = RInt(1)}) > 1
        ELSE LET t == [a \in 1..3 |-> RPow(q[a], Pow2(exponent.e))]
             IN  RLess(RInt(1), RAdd(RAdd(t[1], t[2]), t[3]))

\* Grid.add_primitive with the default R (no rotation); dimension and center are
\* [isint, v]: given as integers they address cells, as floats physical coordinates
add_primitive(h, g, dimension, center, exponent, fill, inverse, periodic, now) ==
    LET m       == h[g.material]
        size    == h[g.size]
        spacing == VDiv(size, VInt(cells(h, g)))
        half    == <<Rat(1, 2), Rat(1, 2), Rat(1, 2)>>
        r == IF dimension.isint THEN VMul(VMul(dimension.v, half), spacing)
             ELSE VMul(dimension.v, half)
        c == IF center.isint THEN VMul(VAdd(center.v, half), spacing)
             ELSE VSub(center.v, h[g.origin])
        zero == <<RInt(0), RInt(0), RInt(0)>>
        coords == coordinates0_point(cells(h, g), size,
                      VSub(zero, IF periodic
                                 THEN VMul(half, VAdd(size, IF center.isint THEN spacing ELSE zero))
                                 ELSE c))
        mask0 == [i \in Idx(m.shape) |-> outside_primitive(coords[i], r, exponent)]
        shift == [a \in 1..3 |->
                     LET t == RMul(RSub(RDiv(c[a], size[a]), Rat(1, 2)), RInt(m.shape[a]))
                     IN  np_rint(t[1], t[2])]
        mask == IF periodic THEN np_roll(mask0, m.shape, shift) ELSE mask0
        fill_ == IF fill = None THEN np_nanmax(m) + 1 ELSE fill[1]
    IN  Grid__init__(h, Temp(NDArray(m.shape, "int64",
                                     [i \in Idx(m.shape) |->
                                         IF (IF inverse THEN ~mask[i] ELSE mask[i])
                                         THEN m.at[i] ELSE fill_])),
                     self_size(h, g),
                     self_origin(h, g),
                     Some(comments_plus_stamp(h, g, "add_primitive", now)))

\* grid_filters.coordinates0_node(cells, size, origin): the corners of the cells
coordinates0_node(cells_, size, origin) ==
    [i \in Idx([a \in 1..3 |-> cells_[a] + 1]) |->
        [a \in 1..3 |-> RAdd(origin[a], RMul(RDiv(size[a], RInt(cells_[a])), RInt(i[a])))]]

\* VTK.from_unstructured_grid(nodes, connectivity, cell_type)
VTK_from_unstructured_grid(nodes, connectivity, cell_type) ==
    [nodes |-> nodes, connectivity |-> connectivity, cell_type |-> cell_type]

\* np.argwhere(seq): the 0-based positions of the true entries, ascending
RECURSIVE np_argwhere_from(_, _)
np_argwhere_from(seq, p) ==
    IF p > Len(seq) THEN <<>>
    ELSE (IF seq[p] THEN <<p - 1>> ELSE <<>>) \o np_argwhere_from(seq, p + 1)

np_argwhere(seq) == np_argwhere_from(seq, 1)

\* offsets counted with the numbers of cells in place of the numbers of nodes
connectivity_offset_cells(cells_, i) ==
    LET nxy == cells_[1] * cells_[2]
    IN  IF i = 0 THEN <<0, cells_[1], nxy + cells_[1], nxy>>
        ELSE IF i = 1 THEN <<0, nxy, nxy + 1, 1>>
        ELSE <<0, 1, cells_[1] + 1, cells_[1]>>

\* offsets from a base node to the four corners of the face normal to axis i
connectivity_offset(cells_, i) ==
    LET nxy == (cells_[1] + 1) * (cells_[2] + 1)
    IN  IF i = 0 THEN <<0, cells_[1] + 1, nxy + cells_[1] + 1, nxy>>
        ELSE IF i = 1 THEN <<0, nxy, nxy + 1, 1>>
        ELSE <<0, 1, cells_[1] + 1 + 1, cells_[1] + 1>>

\* mask = np.concatenate((mask, np.take(mask,[0],j)*(i==j)), j) for j = 0, 1, 2
RECURSIVE boundary_mask_extend(_, _, _)
boundary_mask_extend(mask, i, j) ==
    IF j > 2 THEN mask
    ELSE LET layer == np_take(mask, <<0>>, j)
             added == [layer EXCEPT !.at = [q \in DOMAIN layer.at |-> layer.at[q] /\ i = j]]
         IN  boundary_mask_extend(np_concatenate(mask, added, j), i, j + 1)

\* the mask with its outer layers kept whether the Grid is periodic or not
boundary_mask_kept(material, i, periodic) ==
    LET rolled == np_roll(material.at, material.shape, [a \in 1..3 |-> IF a = i + 1 THEN 1 ELSE 0])
        differs == NDArray(material.shape, "bool",
                           [q \in Idx(material.shape) |-> material.at[q] # rolled[q]])
    IN  boundary_mask_extend(differs, i, 0)

\* the faces normal to axis i (0, 1, 2) that separate cells of different material, on
\* the nodes: self.material != np.roll(self.material,1,i), extended by one layer per
\* axis, the outer layers along i cleared on a Grid that is not periodic
boundary_mask(material, i, periodic) ==
    LET rolled == np_roll(material.at, material.shape, [a \in 1..3 |-> IF a = i + 1 THEN 1 ELSE 0])
        differs == NDArray(material.shape, "bool",
                           [q \in Idx(material.shape) |-> material.at[q] # rolled[q]])
        mask == boundary_mask_extend(differs, i, 0)
    IN  IF periodic THEN mask
        ELSE [mask EXCEPT !.at = [q \in DOMAIN mask.at |->
                                     IF q[i + 1] = 0 \/ q[i + 1] = mask.shape[i + 1] - 1
                                     THEN FALSE ELSE mask.at[q]]]

\* the rows np.block([base_nodes + o[i][k] for k in range(4)]) of direction i
boundary_faces(material, i, periodic) ==
    LET base_nodes == np_argwhere(flatten_F(boundary_mask(material, i, periodic)))
        o == connectivity_offset(material.shape, i)
    IN  [n \in 1..Len(base_nodes) |-> [k \in 1..4 |-> base_nodes[n] + o[k]]]

\* the loop over 'x', 'y', 'z': the list of the blocks of the directions asked for
RECURSIVE connectivity_blocks(_, _, _, _)
connectivity_blocks(material, directions, periodic, i) ==
    IF i > 2 THEN <<>>
    ELSE (IF In(valid[i + 1], directions) THEN <<boundary_faces(material, i, periodic)>> ELSE <<>>)
         \o connectivity_blocks(material, directions, periodic, i + 1)

\* np.vstack(blocks): the rows of all blocks
RECURSIVE np_vstack(_)
np_vstack(blocks) == IF blocks = <<>> THEN <<>> ELSE Head(blocks) \o np_vstack(Tail(blocks))

\* Grid.get_grain_boundaries: [err, out]; np.vstack raises ValueError when handed no
\* array at all
get_grain_boundaries(h, g, periodic, directions) ==
    IF ~directions_valid(directions) THEN [err |-> "ValueError", out |-> <<>>] ELSE
    LET connectivity == connectivity_blocks(h[g.material], directions, periodic, 0)
        nodes == coordinates0_node(cells(h, g), h[g.size], h[g.origin])
        shp == [a \in 1..3 |-> cells(h, g)[a] + 1]
        coords == [p \in 1..Prod(shp) |->
                      nodes[<<(p - 1) % shp[1], ((p - 1) \div shp[1]) % shp[2],
                              (p - 1) \div (shp[1] * shp[2])>>]]
    IN  IF connectivity = <<>> THEN [err |-> "ValueError", out |-> <<>>]
        ELSE [err |-> "none",
              out |-> VTK_from_unstructured_grid(coords, np_vstack(connectivity), "QUAD")]

-----------------------------------------------------------------------------
(* Grid.from_Laguerre_tessellation and its worker pool                     *)

\* the index tuples of an array of the given shape in C order (last axis fastest)
indices_C(shape) ==
    [p \in 1..Prod(shape) |->
        <<(p - 1) \div (shape[2] * shape[3]), ((p - 1) \div shape[3]) % shape[2],
          (p - 1) % shape[3]>>]

\* seq.reshape(shape): C order
reshape_C(seq, shape, dtype) ==
    NDArray(shape, dtype,
            [i \in Idx(shape) |-> seq[1 + i[3] + shape[3] * (i[2] + shape[2] * i[1])]])

\* np.sum((point - seed)**2) - weight
power_distance(seed, weight, point) ==
    LET d == VSub(point, seed)
    IN  RSub(RAdd(RAdd(RMul(d[1], d[1]), RMul(d[2], d[2])), RMul(d[3], d[3])), weight)

\* np.argmin(v): the 0-based position of the first smallest entry
np_argmin(v) ==
    (CHOOSE i \in 1..Len(v) : /\ \A j \in 1..Len(v) : ~RLess(v[j], v[i])
                              /\ \A j \in 1..(i - 1) : RLess(v[i], v[j])) - 1

\* Grid._find_closest_seed
_find_closest_seed(seeds, weights, point) ==
    np_argmin([i \in 1..Len(seeds) |-> power_distance(seeds[i], weights[i], point)])

\* np.vstack((seeds - d, seeds, seeds + d))
vstack_shifted(seeds, d) ==
    [i \in 1..Len(seeds) |-> VSub(seeds[i], d)] \o seeds \o [i \in 1..Len(seeds) |-> VAdd(seeds[i], d)]

\* np.tile(weights, n)
RECURSIVE np_tile(_, _)
np_tile(weights, n) == IF n = 0 THEN <<>> ELSE weights \o np_tile(weights, n - 1)

\* seeds_p of from_Laguerre_tessellation
periodic_seeds(seeds, size, periodic) ==
    IF periodic
    THEN LET zero == RInt(0)
             sx == vstack_shifted(seeds, <<size[1], zero, zero>>)
             sy == vstack_shifted(sx, <<zero, size[2], zero>>)
         IN  vstack_shifted(sy, <<zero, zero, size[3]>>)
    ELSE seeds

\* weights_p of from_Laguerre_tessellation
periodic_weights(weights, periodic) == IF periodic THEN np_tile(weights, 27) ELSE weights

\* Pool.map_async without a chunksize: ceil(len(iterable) / (4 * len(pool)))
map_chunksize(n_items, n_workers) ==
    (n_items \div (4 * n_workers)) + (IF n_items % (4 * n_workers) = 0 THEN 0 ELSE 1)

\* the 1-based positions of the items of chunk c (1, 2, ...)
chunk_items(c, chunksize, n_items) ==
    [k \in 1..(Min(c * chunksize, n_items) - (c - 1) * chunksize) |-> (c - 1) * chunksize + k]

\* result.get(): the results of the chunks in the order of the chunks
RECURSIVE map_result(_, _)
map_result(results, c) ==
    IF c > Len(results) THEN <<>> ELSE results[c][1] \o map_result(results, c + 1)

\* a worker hands in the results of chunk c in completion order
store_chunk_appended(results, c, values) ==
    LET free == CHOOSE k \in 1..Len(results) :
                    results[k] = None /\ \A j \in 1..(k - 1) : results[j] # None
    IN  [results EXCEPT ![free] = Some(values)]

\* a worker hands in the results of chunk c: they are filed under the chunk's number
store_chunk(results, c, values) == [results EXCEPT ![c] = Some(values)]

\* the Grid from_Laguerre_tessellation builds from the gathered results
tessellation_grid(h, gathered, cells_, size, n_seeds, material, periodic, now) ==
    LET closest == reshape_C(gathered, cells_, "int64")
        material_ == IF periodic
                     THEN [closest EXCEPT !.at = [i \in DOMAIN closest.at |-> closest.at[i] % n_seeds]]
                     ELSE closest
        mapped == IF material = None THEN material_
                  ELSE [material_ EXCEPT !.at = [i \in DOMAIN material_.at |->
                                                    material[1][material_.at[i] + 1]]]
    IN  Grid__init__(h, Temp(mapped), Temp(size), Temp(<<RInt(0), RInt(0), RInt(0)>>),
                     Some(Temp(PyStr(execution_stamp("Grid", Some("from_Laguerre_tessellation"),
                                                     now)))))

-----------------------------------------------------------------------------
(* Decimal fixed-point arithmetic standing in for the float64 of the       *)
(* colour computations.  A number is <<a0, a1, a2, a3, a4>> with value     *)
(* a0 + a1/10^4 + a2/10^8 + a3/10^12 + a4/10^16, a0 any integer and        *)
(* a1..a4 in 0..9999: 16 decimal places, about the resolution of float64   *)
(* near 1.  An operator names the value of an expression e by drawing it   *)
(* from the singleton set {e}: CHOOSE it \in {f(v) : v \in {e}} : TRUE is   *)
(* f(e).  A nest of these reads from its last line upwards.                *)

\* the base of a limb
Base == 10000

\* the carry into limb i of the six limbs v, the sixth (below the resolution) rounded
RECURSIVE FCarry(_, _)
FCarry(v, i) ==
    IF i = 5 THEN (v[6] + (Base \div 2)) \div Base
    ELSE (v[i + 1] + FCarry(v, i + 1)) \div Base

\* carry from a sixth limb up to the first
FNorm(t) ==
    (CHOOSE it \in {<<v[1] + FCarry(v, 1), (v[2] + FCarry(v, 2)) % Base, (v[3] + FCarry(v, 3)) % Base,
                      (v[4] + FCarry(v, 4)) % Base, (v[5] + FCarry(v, 5)) % Base>> :
                      v \in {t}} : TRUE)

FInt(k) == <<k, 0, 0, 0, 0>>

FZero == FInt(0)

FOne == FInt(1)

FAdd(x, y) ==
    (CHOOSE it \in {FNorm(<<a[1] + b[1], a[2] + b[2], a[3] + b[3], a[4] + b[4],
                            a[5] + b[5], 0>>) :
                      a \in {x},
                      b \in {y}} : TRUE)

FSub(x, y) ==
    (CHOOSE it \in {FNorm(<<a[1] - b[1], a[2] - b[2], a[3] - b[3], a[4] - b[4],
                            a[5] - b[5], 0>>) :
                      a \in {x},
                      b \in {y}} : TRUE)

FNeg(x) == FSub(FZero, x)

FLess(x, y) ==
    (CHOOSE it \in {\/ a[1] < b[1]
                    \/ a[1] = b[1] /\ \/ a[2] < b[2]
                                      \/ a[2] = b[2] /\ \/ a[3] < b[3]
                                                        \/ a[3] = b[3] /\ \/ a[4] < b[4]
                                                                          \/ a[4] = b[4] /\ a[5] < b[5] :
                      a \in {x},
                      b \in {y}} : TRUE)

FLeq(x, y) == ~FLess(y, x)

FAbs(x) == (CHOOSE it \in {IF v[1] < 0 THEN FNeg(v) ELSE v : v \in {x}} : TRUE)

FMin(x, y) == (CHOOSE it \in {IF FLess(b, a) THEN b ELSE a :
                                a \in {x},
                                b \in {y}} : TRUE)

FMax(x, y) == (CHOOSE it \in {IF FLess(a, b) THEN b ELSE a :
                                a \in {x},
                                b \in {y}} : TRUE)

\* x * y, rounded to the nearest number
FMul(x, y) ==
    (CHOOSE it \in {FNorm(<<a[1] * b[1],
                            a[1] * b[2] + a[2] * b[1],
                            a[1] * b[3] + a[2] * b[2] + a[3] * b[1],
                            a[1] * b[4] + a[2] * b[3] + a[3] * b[2] + a[4] * b[1],
                            a[1] * b[5] + a[2] * b[4] + a[3] * b[3] + a[4] * b[2] + a[5] * b[1],
                            a[2] * b[5] + a[3] * b[4] + a[4] * b[3] + a[5] * b[2]
                                + ((a[3] * b[5] + a[4] * b[4] + a[5] * b[3]
                                    + ((a[4] * b[5] + a[5] * b[4] + ((a[5] * b[5]) \div Base))
                                       \div Base)) \div Base)>>) :
                      a \in {x},
                      b \in {y}} : TRUE)

\* x * n for an integer n
FMulInt(x, n) ==
    (CHOOSE it \in {FNorm(<<a[1] * k, a[2] * k, a[3] * k, a[4] * k, a[5] * k, 0>>) :
                      a \in {x},
                      k \in {n}} : TRUE)

\* the remainder of the limbs 1..i of a by k, brought down to limb i + 1
RECURSIVE FRemainder(_, _, _)
FRemainder(a, k, i) ==
    IF i = 1 THEN (a[1] % k) * Base + a[2]
    ELSE (FRemainder(a, k, i - 1) % k) * Base + a[i + 1]

\* x / n for an integer 0 < n < 200000, by long division
FDivInt(x, n) ==
    (CHOOSE it \in {FNorm(<<a[1] \div k, FRemainder(a, k, 1) \div k, FRemainder(a, k, 2) \div k,
                            FRemainder(a, k, 3) \div k, (FRemainder(a, k, 4) + (k \div 2)) \div k, 0>>) :
                      a \in {x},
                      k \in {n}} : TRUE)

\* the number p/q of two integers, 0 < q < 200000
FRat(p, q) == FDivInt(FInt(p), q)

\* x * 10^4 and x / 10^4
FShl(x) == (CHOOSE it \in {<<a[1] * Base + a[2], a[3], a[4], a[5], 0>> : a \in {x}} : TRUE)

FShr(x) == (CHOOSE it \in {FNorm(<<a[1] \div Base, a[1] % Base, a[2], a[3], a[4], a[5]>>) : a \in {x}} : TRUE)

\* Newton's iteration r <- r + r (1 - y r) for 1/y, at most n times, from the value y
RECURSIVE FNewton(_, _, _)
FNewton(y, r, n) ==
    IF n = 0 \/ FMul(y, r) = FOne THEN r
    ELSE FNewton(y, FAdd(r, FMul(r, FSub(FOne, FMul(y, r)))), n - 1)

\* 1/y for y >= 1
FRecipBig(y) ==
    FNewton(y, IF y[1] >= 20 THEN FRat(1, y[1]) ELSE FRat(Base, y[1] * Base + y[2]), 5)

\* 1/y for y > 0
RECURSIVE FRecip(_)
FRecip(y) == IF y[1] >= 1 THEN FRecipBig(y) ELSE FShl(FRecip(FShl(y)))

\* x / y for y > 0: x times the reciprocal of y, corrected once by the residual; a
\* fraction of two small numbers is first expanded by Base
RECURSIVE FDivPos(_, _)
FDivPos(n, d) ==
    IF d[1] = 0 /\ n[1] \in {-1, 0} THEN FDivPos(FShl(n), FShl(d)) ELSE
    (CHOOSE it \in {(CHOOSE it \in {FAdd(q, FMul(r, FSub(n, FMul(d, q)))) : q \in {FMul(n, r)}} : TRUE) :
                      r \in {FRecip(d)}} : TRUE)

\* x / y, y # 0
FDiv(x, y) ==
    (CHOOSE it \in {IF d[1] < 0 THEN FDivPos(FNeg(n), FNeg(d)) ELSE FDivPos(n, d) :
                      n \in {x},
                      d \in {y}} : TRUE)

\* pi, 1 / (2 pi), ln 2 and 1 / ln 2 to 16 places
FPi == <<3, 1415, 9265, 3589, 7932>>

FInv2Pi == <<0, 1591, 5494, 3091, 8953>>

FLn2 == <<0, 6931, 4718, 559, 9453>>

FInvLn2 == <<1, 4426, 9504, 888, 9634>>

FHalf == <<0, 5000, 0, 0, 0>>

\* x * 2^k for k <= 17, seventeen halvings at a time
RECURSIVE FScale2(_, _)
FScale2(x, k) ==
    IF k >= 0 THEN FMulInt(x, 2^k)
    ELSE IF k >= -17 THEN FDivInt(x, 2^(-k))
    ELSE FScale2(FDivInt(x, 2^17), k + 17)

\* sum + term + term r/(n+1) + term r^2/((n+1)(n+2)) + ...: the exponential series of
\* r from its n-th term on, up to the term that no longer changes the sum
RECURSIVE FExpSeries(_, _, _, _)
FExpSeries(r, n, term, sum) ==
    IF FAdd(sum, term) = sum THEN sum
    ELSE FExpSeries(r, n + 1, FDivInt(FMul(term, r), n + 1), FAdd(sum, term))

\* exp(y) = 2^k exp(y - k ln 2) with |y - k ln 2| <= (ln 2)/2
FExp(y) ==
    (CHOOSE it \in {(CHOOSE it \in {(CHOOSE it \in {FScale2(FExpSeries(r, 0, FOne, FZero), k) :
                                                      r \in {FSub(v, FMulInt(FLn2, k))}} : TRUE) :
                                      k \in {FAdd(FMul(v, FInvLn2), FHalf)[1]}} : TRUE) :
                      v \in {y}} : TRUE)

\* <<m, k>> with x = m 2^k and m in [0.7071, 1.4143), x > 0
RECURSIVE FLnReduce(_, _)
FLnReduce(m, k) ==
    IF m[1] >= 1024 THEN FLnReduce(FDivInt(m, 1024), k + 10)
    ELSE IF ~FLess(m, <<1, 4143, 0, 0, 0>>) THEN FLnReduce(FDivInt(m, 2), k + 1)
    ELSE IF m[1] = 0 /\ m[2] < 9 THEN FLnReduce(FMulInt(m, 1024), k - 10)
    ELSE IF FLess(m, <<0, 7071, 0, 0, 0>>) THEN FLnReduce(FMulInt(m, 2), k - 1)
    ELSE <<m, k>>

\* sum + power/(2j+1) + sign power z2/(2j+3) + power z2^2/(2j+5) + ...: the series of
\* artanh(z)/z (sign 1) and of arctan(z)/z (sign -1) in z2 = z^2 from its j-th term on,
\* up to the term that no longer changes the sum
RECURSIVE FOddSeries(_, _, _, _, _)
FOddSeries(z2, sign, j, power, sum) ==
    IF FAdd(sum, FDivInt(power, 2 * j + 1)) = sum THEN sum
    ELSE FOddSeries(z2, sign, j + 1, FMulInt(FMul(power, z2), sign),
                    FAdd(sum, FDivInt(power, 2 * j + 1)))

\* ln(x), x > 0: k ln 2 + 2 artanh((m - 1)/(m + 1))
FLn(x) ==
    (CHOOSE it \in {(CHOOSE it \in {FAdd(FMulInt(FLn2, mk[2]),
                                         FMulInt(FMul(z, (CHOOSE it \in {FOddSeries(z2, 1, 0, FOne, FZero) :
                                                                           z2 \in {FMul(z, z)}} : TRUE)),
                                                 2)) :
                                      z \in {FDiv(FSub(mk[1], FOne), FAdd(mk[1], FOne))}} : TRUE) :
                      mk \in {FLnReduce(x, 0)}} : TRUE)

\* x ** p for x >= 0
FPow(x, p) == (CHOOSE it \in {IF v = FZero THEN FZero ELSE FExp(FMul(p, FLn(v))) : v \in {x}} : TRUE)

\* np.sqrt(x), x >= 0: from exp and ln, then one step of Heron's iteration
FSqrt(x) ==
    (CHOOSE it \in {IF v = FZero THEN FZero
                    ELSE (CHOOSE it \in {FDivInt(FAdd(s, FDiv(v, s)), 2) : s \in {FExp(FDivInt(FLn(v), 2))}} : TRUE) :
                      v \in {x}} : TRUE)

\* x reduced by multiples of 2 pi into [-pi, pi)
FWrap(x) ==
    (CHOOSE it \in {FSub(v, FMulInt(FPi, 2 * FAdd(FMul(v, FInv2Pi), FHalf)[1])) : v \in {x}} : TRUE)

\* sum + term - term x2/(a (a+1)) + term x2^2/(a (a+1) (a+2) (a+3)) - ...: the series
\* of cos (from a = 1) and of sin(x)/x (from a = 2) in x2 = x^2, up to the term that no
\* longer changes the sum
RECURSIVE FTrigSeries(_, _, _, _)
FTrigSeries(x2, a, term, sum) ==
    IF FAdd(sum, term) = sum THEN sum
    ELSE FTrigSeries(x2, a + 2, FNeg(FDivInt(FMul(term, x2), a * (a + 1))), FAdd(sum, term))

\* sin and cos of |x| <= pi/2
FSinSmall(x) ==
    (CHOOSE it \in {FMul(v, (CHOOSE it \in {FTrigSeries(x2, 2, FOne, FZero) : x2 \in {FMul(v, v)}} : TRUE)) : v \in {x}} : TRUE)

FCosSmall(x) == (CHOOSE it \in {FTrigSeries(x2, 1, FOne, FZero) : x2 \in {FMul(x, x)}} : TRUE)

FHalfPi == FDivInt(FPi, 2)

\* np.sin(x) and np.cos(x)
FSin(x) ==
    (CHOOSE it \in {IF FLess(FHalfPi, w) THEN FSinSmall(FSub(FPi, w))
                    ELSE IF FLess(w, FNeg(FHalfPi)) THEN FSinSmall(FSub(FNeg(FPi), w))
                    ELSE FSinSmall(w) :
                      w \in {FWrap(x)}} : TRUE)

FCos(x) ==
    (CHOOSE it \in {IF FLess(FHalfPi, w) THEN FNeg(FCosSmall(FSub(FPi, w)))
                    ELSE IF FLess(w, FNeg(FHalfPi)) THEN FNeg(FCosSmall(FSub(FNeg(FPi), w)))
                    ELSE FCosSmall(w) :
                      w \in {FWrap(x)}} : TRUE)

\* arctan(z) for 0 <= z <= 0.4143
FAtanSmall(z) ==
    (CHOOSE it \in {FMul(v, (CHOOSE it \in {FOddSeries(z2, -1, 0, FOne, FZero) : z2 \in {FMul(v, v)}} : TRUE)) : v \in {z}} : TRUE)

\* arctan(z) for 0 <= z <= 1: pi/4 - arctan((1 - z)/(1 + z)) above tan(pi/8)
FAtan01(z) ==
    (CHOOSE it \in {IF FLess(<<0, 4142, 0, 0, 0>>, v)
                    THEN FSub(FDivInt(FPi, 4), FAtanSmall(FDiv(FSub(FOne, v), FAdd(FOne, v))))
                    ELSE FAtanSmall(v) :
                      v \in {z}} : TRUE)

\* np.arctan2(y, x)
FAtan2(y, x) ==
    (CHOOSE it \in {(CHOOSE it \in {(CHOOSE it \in {(CHOOSE it \in {IF v[1] < 0 THEN FNeg(b) ELSE b :
                                                                      b \in {IF u[1] < 0 THEN FSub(FPi, a) ELSE a}} : TRUE) :
                                                      a \in {IF av = FZero THEN FZero
                                                             ELSE IF FLess(au, av) THEN FSub(FHalfPi, FAtan01(FDiv(au, av)))
                                                             ELSE FAtan01(FDiv(av, au))}} : TRUE) :
                                      av \in {FAbs(v)},
                                      au \in {FAbs(u)}} : TRUE) :
                      v \in {y},
                      u \in {x}} : TRUE)

\* np.arccos(t), -1 <= t <= 1
FAcos(t) ==
    (CHOOSE it \in {(CHOOSE it \in {FAtan2(FSqrt(IF q[1] < 0 THEN FZero ELSE q), v) :
                                      q \in {FSub(FOne, FMul(v, v))}} : TRUE) :
                      v \in {t}} : TRUE)

-----------------------------------------------------------------------------
(* Colour space conversions of damask.Colormap.  A colour is a triple of   *)
(* numbers.                                                                *)

\* the decimal number i.f of an integer part i >= 0 and nine decimals f
Dec(i, f) == <<i, f \div 100000, (f % 100000) \div 10, (f % 10) * 1000, 0>>

_EPS == FRat(216, 24389)

_KAPPA == FRat(24389, 27)

_REF_WHITE == <<Dec(0, 950470000), FOne, Dec(1, 88830000)>>

\* the inner product of two triples
np_inner(a, w) == FAdd(FAdd(FMul(a[1], w[1]), FMul(a[2], w[2])), FMul(a[3], w[3]))

\* np.dot(m, v) of a 3 x 3 matrix and a vector
np_dot(m, v) ==
    (CHOOSE it \in {<<np_inner(a[1], w), np_inner(a[2], w), np_inner(a[3], w)>> :
                      a \in {m},
                      w \in {v}} : TRUE)

\* np.clip(x, 0, 1)
np_clip01(x) == FMax(FZero, FMin(FOne, x))

\* colorsys.hsv_to_rgb(h, s, v) of hsv = <<h, s, v>>
hsv_to_rgb(hsv) ==
    (CHOOSE it \in {IF a[2] = FZero THEN <<a[3], a[3], a[3]>>
                    ELSE (CHOOSE it \in {(CHOOSE it \in {CASE h6[1] % 6 = 0 -> <<a[3], e[3], e[1]>>
                                                           [] h6[1] % 6 = 1 -> <<e[2], a[3], e[1]>>
                                                           [] h6[1] % 6 = 2 -> <<e[1], a[3], e[3]>>
                                                           [] h6[1] % 6 = 3 -> <<e[1], e[2], a[3]>>
                                                           [] h6[1] % 6 = 4 -> <<e[3], e[1], a[3]>>
                                                           [] h6[1] % 6 = 5 -> <<a[3], e[1], e[2]>> :
                                                           e \in {LET f == FSub(h6, FInt(h6[1]))
                                                                  IN  <<FMul(a[3], FSub(FOne, a[2])),
                                                                        FMul(a[3], FSub(FOne, FMul(a[2], f))),
                                                                        FMul(a[3], FSub(FOne, FMul(a[2], FSub(FOne, f))))>>}} : TRUE) :
                                           h6 \in {FMulInt(a[1], 6)}} : TRUE) :
                      a \in {hsv}} : TRUE)

\* x % 1.0
fmod1(x) == (CHOOSE it \in {FSub(v, FInt(v[1])) : v \in {x}} : TRUE)

\* the hue colorsys.rgb_to_hsv and rgb_to_hls compute for the values c = <<r, g, b>>,
\* maxc and rangec, maxc # minc
colorsys_hue(c, maxc, rangec) ==
    (CHOOSE it \in {fmod1(FDivInt(IF c[1] = maxc THEN FSub(d[3], d[2])
                                  ELSE IF c[2] = maxc THEN FSub(FAdd(FInt(2), d[1]), d[3])
                                  ELSE FSub(FAdd(FInt(4), d[2]), d[1]),
                                  6)) :
                      d \in {<<FDiv(FSub(maxc, c[1]), rangec), FDiv(FSub(maxc, c[2]), rangec),
                               FDiv(FSub(maxc, c[3]), rangec)>>}} : TRUE)

\* colorsys.rgb_to_hsv(r, g, b) of rgb = <<r, g, b>>
rgb_to_hsv(rgb) ==
    (CHOOSE it \in {(CHOOSE it \in {IF minc = maxc THEN <<FZero, FZero, maxc>>
                                    ELSE (CHOOSE it \in {<<colorsys_hue(c, maxc, rangec),
                                                           FDiv(rangec, maxc), maxc>> :
                                                           rangec \in {FSub(maxc, minc)}} : TRUE) :
                                      maxc \in {FMax(c[1], FMax(c[2], c[3]))},
                                      minc \in {FMin(c[1], FMin(c[2], c[3]))}} : TRUE) :
                      c \in {rgb}} : TRUE)

\* colorsys._v for the values m1 and m2
colorsys_v(m1, m2, hue) ==
    (CHOOSE it \in {IF FLess(h, FRat(1, 6)) THEN FAdd(m1, FMulInt(FMul(FSub(m2, m1), h), 6))
                    ELSE IF FLess(h, FHalf) THEN m2
                    ELSE IF FLess(h, FRat(2, 3))
                         THEN FAdd(m1, FMulInt(FMul(FSub(m2, m1), FSub(FRat(2, 3), h)), 6))
                    ELSE m1 :
                      h \in {fmod1(hue)}} : TRUE)

\* colorsys.hls_to_rgb(h, l, s) of hls = <<h, l, s>>
hls_to_rgb(hls) ==
    (CHOOSE it \in {IF a[3] = FZero THEN <<a[2], a[2], a[2]>>
                    ELSE (CHOOSE it \in {(CHOOSE it \in {<<colorsys_v(m1, m2, FAdd(a[1], FRat(1, 3))),
                                                           colorsys_v(m1, m2, a[1]),
                                                           colorsys_v(m1, m2, FSub(a[1], FRat(1, 3)))>> :
                                                           m1 \in {FSub(FMulInt(a[2], 2), m2)}} : TRUE) :
                                           m2 \in {IF FLeq(a[2], FHalf) THEN FMul(a[2], FAdd(FOne, a[3]))
                                                   ELSE FSub(FAdd(a[2], a[3]), FMul(a[2], a[3]))}} : TRUE) :
                      a \in {hls}} : TRUE)

\* colorsys.rgb_to_hls(r, g, b) of rgb = <<r, g, b>>
rgb_to_hls(rgb) ==
    (CHOOSE it \in {(CHOOSE it \in {(CHOOSE it \in {IF minc = maxc THEN <<FZero, l, FZero>>
                                                    ELSE (CHOOSE it \in {<<colorsys_hue(c, maxc, rangec), l,
                                                                           IF FLeq(l, FHalf) THEN FDiv(rangec, FAdd(maxc, minc))
                                                                           ELSE FDiv(rangec, FSub(FSub(FInt(2), maxc), minc))>> :
                                                                           rangec \in {FSub(maxc, minc)}} : TRUE) :
                                                      l \in {FDivInt(FAdd(maxc, minc), 2)}} : TRUE) :
                                      maxc \in {FMax(c[1], FMax(c[2], c[3]))},
                                      minc \in {FMin(c[1], FMin(c[2], c[3]))}} : TRUE) :
                      c \in {rgb}} : TRUE)

_hsv2rgb(hsv) == (CHOOSE it \in {hsv_to_rgb(<<FDivInt(c[1], 360), c[2], c[3]>>) : c \in {hsv}} : TRUE)

_rgb2hsv(rgb) == (CHOOSE it \in {<<FMulInt(hsv[1], 360), hsv[2], hsv[3]>> : hsv \in {rgb_to_hsv(rgb)}} : TRUE)

_hsl2rgb(hsl) == (CHOOSE it \in {hls_to_rgb(<<FDivInt(c[1], 360), c[3], c[2]>>) : c \in {hsl}} : TRUE)

_rgb2hsl(rgb) == (CHOOSE it \in {<<FMulInt(hls[1], 360), hls[3], hls[2]>> : hls \in {rgb_to_hls(rgb)}} : TRUE)

\* one component of the companding of _xyz2rgb
xyz2rgb_gamma(rgb_lin) ==
    (CHOOSE it \in {IF FLess(Dec(0, 3130800), c)
                    THEN FSub(FMul(FPow(c, FDiv(FOne, Dec(2, 400000000))), Dec(1, 55500000)),
                              Dec(0, 55500000))
                    ELSE FMul(c, Dec(12, 920000000)) :
                      c \in {rgb_lin}} : TRUE)

\* the matrix of _xyz2rgb
xyz2rgb_matrix ==
    <<<<Dec(3, 240969942), FNeg(Dec(1, 537383178)), FNeg(Dec(0, 498610760))>>,
      <<FNeg(Dec(0, 969243636)), Dec(1, 875967502), Dec(0, 41555057)>>,
      <<Dec(0, 55630080), FNeg(Dec(0, 203976959)), Dec(1, 56971514)>>>>

_xyz2rgb(xyz) ==
    (CHOOSE it \in {<<np_clip01(xyz2rgb_gamma(rgb_lin[1])), np_clip01(xyz2rgb_gamma(rgb_lin[2])),
                      np_clip01(xyz2rgb_gamma(rgb_lin[3]))>> :
                      rgb_lin \in {np_dot(xyz2rgb_matrix, xyz)}} : TRUE)

\* one component of the inverse companding of _rgb2xyz
rgb2xyz_gamma(rgb) ==
    (CHOOSE it \in {IF FLess(Dec(0, 40450000), c)
                    THEN FPow(FDiv(FAdd(c, Dec(0, 55500000)), Dec(1, 55500000)),
                              Dec(2, 400000000))
                    ELSE FDiv(c, Dec(12, 920000000)) :
                      c \in {rgb}} : TRUE)

\* the matrix of _rgb2xyz
rgb2xyz_matrix ==
    <<<<Dec(0, 412390799), Dec(0, 357584339), Dec(0, 180480788)>>,
      <<Dec(0, 212639006), Dec(0, 715168679), Dec(0, 72192315)>>,
      <<Dec(0, 19330819), Dec(0, 119194780), Dec(0, 950532152)>>>>

_rgb2xyz(rgb) ==
    (CHOOSE it \in {np_dot(rgb2xyz_matrix,
                           <<rgb2xyz_gamma(c[1]), rgb2xyz_gamma(c[2]), rgb2xyz_gamma(c[3])>>) :
                      c \in {rgb}} : TRUE)

\* x ** 3
FCube(x) == (CHOOSE it \in {FMul(FMul(v, v), v) : v \in {x}} : TRUE)

\* f**3 if f**3 > _EPS else (116 f - 16)/_KAPPA, of _lab2xyz
lab2xyz_f(f) ==
    (CHOOSE it \in {(CHOOSE it \in {IF FLess(_EPS, v3) THEN v3
                                    ELSE FDiv(FSub(FMulInt(v, 116), FInt(16)), _KAPPA) :
                                      v3 \in {FCube(v)}} : TRUE) :
                      v \in {f}} : TRUE)

_lab2xyz(lab) ==
    (CHOOSE it \in {(CHOOSE it \in {<<FMul(lab2xyz_f(FAdd(f_y, FDivInt(c[2], 500))), _REF_WHITE[1]),
                                      FMul(IF FLess(FMul(_KAPPA, _EPS), c[1]) THEN FCube(f_y)
                                           ELSE FDiv(c[1], _KAPPA),
                                           _REF_WHITE[2]),
                                      FMul(lab2xyz_f(FSub(f_y, FDivInt(c[3], 200))), _REF_WHITE[3])>> :
                                      f_y \in {FDivInt(FAdd(c[1], FInt(16)), 116)}} : TRUE) :
                      c \in {lab}} : TRUE)

\* one component of f of _xyz2lab: r**(1/3) if r > _EPS else (_KAPPA r + 16)/116
xyz2lab_f(ref_scaled) ==
    (CHOOSE it \in {IF FLess(_EPS, r) THEN FPow(r, FRat(1, 3))
                    ELSE FDivInt(FAdd(FMul(_KAPPA, r), FInt(16)), 116) :
                      r \in {ref_scaled}} : TRUE)

_xyz2lab(xyz) ==
    (CHOOSE it \in {(CHOOSE it \in {<<FSub(FMulInt(f[2], 116), FInt(16)),
                                      FMulInt(FSub(f[1], f[2]), 500),
                                      FMulInt(FSub(f[2], f[3]), 200)>> :
                                      f \in {<<xyz2lab_f(FDiv(c[1], _REF_WHITE[1])),
                                               xyz2lab_f(FDiv(c[2], _REF_WHITE[2])),
                                               xyz2lab_f(FDiv(c[3], _REF_WHITE[3]))>>}} : TRUE) :
                      c \in {xyz}} : TRUE)

\* np.linalg.norm of a triple
np_linalg_norm(v) ==
    (CHOOSE it \in {FSqrt(FAdd(FAdd(FMul(c[1], c[1]), FMul(c[2], c[2])), FMul(c[3], c[3]))) : c \in {v}} : TRUE)

_lab2msh(lab) ==
    (CHOOSE it \in {(CHOOSE it \in {IF FLess(<<0, 0, 1, 0, 0>>, M)
                                    THEN <<M, FAcos(FDiv(c[1], M)), FAtan2(c[3], c[2])>>
                                    ELSE <<M, FZero, FZero>> :
                                      M \in {np_linalg_norm(c)}} : TRUE) :
                      c \in {lab}} : TRUE)

_msh2lab(msh) ==
    (CHOOSE it \in {(CHOOSE it \in {<<FMul(c[1], FCos(c[2])), FMul(Ms, FCos(c[3])), FMul(Ms, FSin(c[3]))>> :
                                      Ms \in {FMul(c[1], FSin(c[2]))}} : TRUE) :
                      c \in {msh}} : TRUE)

_lab2rgb(lab) == _xyz2rgb(_lab2xyz(lab))

_rgb2lab(rgb) == _xyz2lab(_rgb2xyz(rgb))

_msh2rgb(msh) == _lab2rgb(_msh2lab(msh))

_rgb2msh(rgb) == _lab2msh(_rgb2lab(rgb))

_hsv2msh(hsv) == _rgb2msh(_hsv2rgb(hsv))

_hsl2msh(hsl) == _rgb2msh(_hsl2rgb(hsl))

_xyz2msh(xyz) == _lab2msh(_xyz2lab(xyz))

-----------------------------------------------------------------------------
(* damask.Colormap: a matplotlib ListedColormap, an array of RGB colours   *)
(* and a name.  An object is a handle [colors, name] with colors the       *)
(* address of its array, a sequence of rows; a name is a sequence of       *)
(* characters.                                                             *)

\* np.linspace(0, 1, N)
np_linspace01(N) == [i \in 1..N |-> IF N = 1 THEN FZero ELSE FRat(i - 1, N - 1)]

\* rad_diff of _interpolate_msh
rad_diff(a, b) == FAbs(FSub(a[3], b[3]))

\* adjust_hue of _interpolate_msh
adjust_hue(msh_sat, msh_unsat) ==
    (CHOOSE it \in {IF ~FLess(sat[1], unsat[1]) THEN sat[3]
                    ELSE (CHOOSE it \in {(CHOOSE it \in {FAdd(sat[3], IF FLess(sat[3], FNeg(FDivInt(FPi, 3)))
                                                                      THEN FNeg(hSpin) ELSE hSpin) :
                                                           hSpin \in {FDiv(FMul(FDiv(sat[2], sin), sqrt), sat[1])}} : TRUE) :
                                           sin \in {FSin(sat[2])},
                                           sqrt \in {FSqrt(FSub(FMul(unsat[1], unsat[1]), FMul(sat[1], sat[1])))}} : TRUE) :
                      sat \in {msh_sat},
                      unsat \in {msh_unsat}} : TRUE)

\* interpolate_diverging with the pivot no brighter than the brighter end
interpolate_diverging_no_floor(frac, lo, hi) ==
    IF /\ FLess(Dec(0, 50000000), lo[2])
       /\ FLess(Dec(0, 50000000), hi[2])
       /\ FLess(FDivInt(FPi, 3), rad_diff(lo, hi))
    THEN (CHOOSE it \in {IF FLess(frac, FHalf)
                         THEN <<FMulInt(frac, 2), lo, <<M_mid, FZero, FZero>> >>
                         ELSE <<FSub(FMulInt(frac, 2), FOne), <<M_mid, FZero, FZero>>, hi>> :
                           M_mid \in {FMax(lo[1], hi[1])}} : TRUE)
    ELSE <<frac, lo, hi>>

\* the first branch of _interpolate_msh: <<frac, lo, hi>> after the split of a
\* diverging map at its middle
interpolate_diverging(frac, lo, hi) ==
    IF /\ FLess(Dec(0, 50000000), lo[2])
       /\ FLess(Dec(0, 50000000), hi[2])
       /\ FLess(FDivInt(FPi, 3), rad_diff(lo, hi))
    THEN (CHOOSE it \in {IF FLess(frac, FHalf)
                         THEN <<FMulInt(frac, 2), lo, <<M_mid, FZero, FZero>> >>
                         ELSE <<FSub(FMulInt(frac, 2), FOne), <<M_mid, FZero, FZero>>, hi>> :
                           M_mid \in {FMax(lo[1], FMax(hi[1], FInt(88)))}} : TRUE)
    ELSE <<frac, lo, hi>>

\* the second branch of _interpolate_msh: <<lo, hi>> after the hue adjustment
interpolate_adjust(lo, hi) ==
    IF FLess(lo[2], Dec(0, 50000000)) /\ FLess(Dec(0, 50000000), hi[2])
    THEN << <<lo[1], lo[2], adjust_hue(hi, lo)>>, hi>>
    ELSE IF FLess(Dec(0, 50000000), lo[2]) /\ FLess(hi[2], Dec(0, 50000000))
    THEN <<lo, <<hi[1], hi[2], adjust_hue(lo, hi)>> >>
    ELSE <<lo, hi>>

\* Colormap._interpolate_msh
_interpolate_msh(frac, low, high) ==
    (CHOOSE it \in {(CHOOSE it \in {(CHOOSE it \in {<<FAdd(FMul(FSub(FOne, d[1]), e[1][1]), FMul(d[1], e[2][1])),
                                                      FAdd(FMul(FSub(FOne, d[1]), e[1][2]), FMul(d[1], e[2][2])),
                                                      FAdd(FMul(FSub(FOne, d[1]), e[1][3]), FMul(d[1], e[2][3]))>> :
                                                      e \in {interpolate_adjust(d[2], d[3])}} : TRUE) :
                                      d \in {interpolate_diverging(a[1], a[2], a[3])}} : TRUE) :
                      a \in {<<frac, low, high>>}} : TRUE)

\* str.lower() on the letters of the colour model names
str_lower(s) ==
    LET upper == <<"A", "B", "G", "H", "L", "M", "R", "S", "V", "X", "Y", "Z">>
        lower == <<"a", "b", "g", "h", "l", "m", "r", "s", "v", "x", "y", "z">>
    IN  [i \in 1..Len(s) |->
            IF \E k \in 1..Len(upper) : upper[k] = s[i]
            THEN lower[CHOOSE k \in 1..Len(upper) : upper[k] = s[i]]
            ELSE s[i]]

\* the keys of toMsh
toMsh_keys == {<<"r", "g", "b">>, <<"h", "s", "v">>, <<"h", "s", "l">>, <<"x", "y", "z">>,
               <<"l", "a", "b">>, <<"m", "s", "h">>}

\* toMsh[model](x)
toMsh(model, x) ==
    CASE model = <<"r", "g", "b">> -> _rgb2msh(x)
      [] model = <<"h", "s", "v">> -> _hsv2msh(x)
      [] model = <<"h", "s", "l">> -> _hsl2msh(x)
      [] model = <<"x", "y", "z">> -> _xyz2msh(x)
      [] model = <<"l", "a", "b">> -> _lab2msh(x)
      [] model = <<"m", "s", "h">> -> x

\* a bounds check that holds every model but lab to the range of rgb
out_of_bounds_unit(model, low_high) ==
    CASE model = <<"l", "a", "b">> -> \E r \in 1..2 : FLess(low_high[r][1], FZero)
      [] model \in {<<"x", "y", "z">>, <<"m", "s", "h">>} -> FALSE
      [] OTHER -> \E r \in 1..2, i \in 1..3 :
                     FLess(low_high[r][i], FZero) \/ FLess(FOne, low_high[r][i])

\* the bounds check of from_range on low_high = np.vstack((low, high))
out_of_bounds(model, low_high) ==
    LET upper == <<FInt(360), FOne, FOne>>
    IN  CASE model = <<"r", "g", "b">> ->
                 \E r \in 1..2, i \in 1..3 :
                     FLess(low_high[r][i], FZero) \/ FLess(FOne, low_high[r][i])
          [] model \in {<<"h", "s", "v">>, <<"h", "s", "l">>} ->
                 \E r \in 1..2, i \in 1..3 :
                     FLess(low_high[r][i], FZero) \/ FLess(upper[i], low_high[r][i])
          [] model = <<"l", "a", "b">> -> \E r \in 1..2 : FLess(low_high[r][1], FZero)
          [] OTHER -> FALSE

NoColormap == <<>>

\* Colormap(colors, name): ListedColormap keeps the array it is handed
Colormap__init__(h, colors, name) ==
    LET a == IF colors.ref # 0 THEN colors.ref ELSE Alloc(h)
        h1 == IF colors.ref # 0 THEN h ELSE Store(h, colors.val)
    IN  [err |-> "none", heap |-> h1, obj |-> [colors |-> a, name |-> name]]

\* Colormap.from_range
from_range(h, low, high, name, N, model) ==
    IF str_lower(model) \notin toMsh_keys THEN Raise(h, "ValueError")
    ELSE IF out_of_bounds(str_lower(model), <<low, high>>) THEN Raise(h, "ValueError")
    ELSE (CHOOSE it \in {Colormap__init__(h, Temp([i \in 1..N |->
                                                     _msh2rgb(_interpolate_msh(np_linspace01(N)[i],
                                                                               low_, high_))]),
                                          name) :
                           low_ \in {toMsh(str_lower(model), low)},
                           high_ \in {toMsh(str_lower(model), high)}} : TRUE)

\* the rows of colors rotated by one
list_rotated(colors) == [i \in 1..Len(colors) |-> colors[(i % Len(colors)) + 1]]

\* list(reversed(colors)) of ListedColormap.reversed
list_reversed(colors) == [i \in 1..Len(colors) |-> colors[Len(colors) - i + 1]]

\* name.endswith(suffix)
str_endswith(name, suffix) ==
    /\ Len(name) >= Len(suffix)
    /\ SubSeq(name, Len(name) - Len(suffix) + 1, Len(name)) = suffix

\* Colormap.reversed: ListedColormap.reversed gives the rows in reverse order under
\* the name with '_r' appended; the result is a Colormap of a new array of these rows
reversed(h, cmap, name) ==
    LET rev_colors == list_reversed(h[cmap.colors])
        rev_name == IF name = None THEN cmap.name \o <<"_", "r">> ELSE name[1]
    IN  Colormap__init__(h, Temp(rev_colors),
                         IF str_endswith(rev_name, <<"_", "r", "_", "r">>)
                         THEN SubSeq(rev_name, 1, Len(rev_name) - 4) ELSE rev_name)

\* Colormap.__invert__
__invert__(h, cmap) == reversed(h, cmap, None)

\* Colormap.__eq__ of the colour arrays a and b
__eq__(a, b) == Len(a) = Len(b) /\ \A i \in 1..Len(a) : a[i] = b[i]

\* a float that is not a number
NaN == <<"nan">>

\* the entries of a 2-d field, a sequence of rows
field_values(field) == {field[r][c] : r \in DOMAIN field, c \in DOMAIN field[1]}

\* mask of shade: the entry is neither NaN nor the gap value
shade_mask(v, gap) == v # NaN /\ (gap = None \/ v # gap[1])

\* the least and the largest of a non-empty set of numbers
FSetMin(S) == CHOOSE x \in S : \A y \in S : FLeq(x, y)

FSetMax(S) == CHOOSE x \in S : \A y \in S : FLeq(y, x)

\* x * 1e8
FMul1e8(x) == FShl(FShl(x))

\* <<lo, hi>> of shade before the extension: of the unmasked data, or of the bounds
shade_lo_hi(field, bounds, gap) ==
    LET unmasked == {v \in field_values(field) : shade_mask(v, gap)}
    IN  IF bounds = None THEN <<FSetMin(unmasked), FSetMax(unmasked)>>
        ELSE <<FMin(bounds[1][1], bounds[1][2]), FMax(bounds[1][1], bounds[1][2])>>

\* <<lo, hi>> as shade normalises with: extended when delta is similar to numerical noise
shade_extend(lo, hi) ==
    (CHOOSE it \in {IF FLeq(FMul1e8(FSub(hi, lo)), avg)
                    THEN <<FSub(lo, FDivInt(avg, 2)), FAdd(hi, FDivInt(avg, 2))>>
                    ELSE <<lo, hi>> :
                      avg \in {FDivInt(FAdd(hi, lo), 2)}} : TRUE)

\* np.round(x) of x >= 0, as an integer: to the nearest, halves to the even one
np_round(x) ==
    (CHOOSE it \in {IF FLess(<<0, v[2], v[3], v[4], v[5]>>, FHalf) THEN v[1]
                    ELSE IF FLess(FHalf, <<0, v[2], v[3], v[4], v[5]>>) THEN v[1] + 1
                    ELSE v[1] + (v[1] % 2) :
                      v \in {x}} : TRUE)

\* (v - lo)/(hi - lo) clipped to [0, 1] for one entry of the field: a number, or NaN
\* for a NaN entry and for 0/0; x/0 is an infinity, which clips to 0 or 1
shade_normalise(v, lo, hi) ==
    IF v = NaN THEN NaN
    ELSE IF hi = lo THEN (IF v = lo THEN NaN ELSE IF FLess(v, lo) THEN FZero ELSE FOne)
    ELSE np_clip01(FDiv(FSub(v, lo), FSub(hi, lo)))

\* the warnings numpy gives for the division of shade
shade_warnings(field, lo, hi) ==
    {w \in {"invalid value encountered in divide", "divide by zero encountered in divide"} :
        /\ hi = lo
        /\ \E v \in field_values(field) \ {NaN} :
               (w = "invalid value encountered in divide") <=> (v = lo)}

\* the index into the colours for one entry of the field
shade_index(v, lohi, N, nan_cast) ==
    (CHOOSE it \in {IF q = NaN THEN nan_cast ELSE np_round(FMulInt(q, N - 1)) :
                      q \in {shade_normalise(v, lohi[1], lohi[2])}} : TRUE)

\* <<R, G, B, A>> of one pixel, 8 bit each
shade_pixel(c, masked) ==
    <<FMulInt(c[1], 255)[1], FMulInt(c[2], 255)[1], FMulInt(c[3], 255)[1],
      IF masked THEN 255 ELSE 0>>

\* Colormap.shade on the colour array colors; a NaN cast to uint16 gives nan_cast.
\* The image is a sequence of rows of <<R, G, B, A>>.
shade(colors, field, bounds, gap, nan_cast) ==
    IF bounds = None /\ \A v \in field_values(field) : ~shade_mask(v, gap)
    THEN [err |-> "ValueError", out |-> <<>>]
    ELSE (CHOOSE it \in {(CHOOSE it \in {IF \E r \in DOMAIN index : \E c \in DOMAIN index[r] :
                                                index[r][c] >= Len(colors)
                                         THEN [err |-> "IndexError", out |-> <<>>]
                                         ELSE [err |-> "none",
                                               out |-> [image |->
                                                           [r \in DOMAIN field |->
                                                               [c \in DOMAIN field[r] |->
                                                                   shade_pixel(colors[index[r][c] + 1],
                                                                               shade_mask(field[r][c], gap))]],
                                                        lo |-> lohi[1], hi |-> lohi[2],
                                                        warnings |-> shade_warnings(field, lohi[1], lohi[2])]] :
                                           index \in {[r \in DOMAIN field |->
                                                          [c \in DOMAIN field[r] |->
                                                              shade_index(field[r][c], lohi, Len(colors), nan_cast)]]}} : TRUE) :
                           lohi \in {(CHOOSE it \in {shade_extend(given[1], given[2]) :
                                                       given \in {shade_lo_hi(field, bounds, gap)}} : TRUE)}} : TRUE)

-----------------------------------------------------------------------------
(* Inputs enumerated by the model                                          *)

\* 3-d shapes with at most n cells
Shapes(n) == {s \in (1..n) \X (1..n) \X (1..n) : Prod(s) <= n}

MatIDs == 0..MaxID

\* the grid of 4 x 4 x 4 cells of the documented mirror example
Example444 == NDArray(<<4, 4, 4>>, "int64", [i \in Idx(<<4, 4, 4>>) |-> (i[1] + 2 * i[2] + i[3]) % 3])

\* integer arrays handed to the constructor
Materials == UNION {{NDArray(s, "int64", f) : f \in [Idx(s) -> MatIDs]} : s \in Shapes(MaxVoxels)}
             \cup {Example444}

\* the 2 x 2 x 2 grid of a single material
Zero222 == NDArray(<<2, 2, 2>>, "int64", [i \in Idx(<<2, 2, 2>>) |-> 0])

\* arrays the constructor has to reject, and a float array of whole numbers
OddMaterials == {NDArray(<<2, 2>>, "int64", <<>>),
                 NDArray(<<1, 2, 1, 1>>, "float64", <<>>),
                 NDArray(<<1, 1, 1>>, "bool", [i \in Idx(<<1, 1, 1>>) |-> 0]),
                 NDArray(<<2, 1, 1>>, "float64", [i \in Idx(<<2, 1, 1>>) |-> i[1] + 1])}

\* size, origin and comments handed to the constructor with a valid material
Profile2 == <<<<RInt(1), RInt(2), Rat(1, 2)>>, <<RInt(-1), Rat(1, 2), RInt(3)>>,
              Some(Temp(PyList(<<<<"note">>>>)))>>

Profiles == {<<<<RInt(1), RInt(1), RInt(1)>>, <<RInt(0), RInt(0), RInt(0)>>, None>>,
             Profile2,
             <<<<RInt(2), RInt(3), RInt(1)>>, <<RInt(0), RInt(0), RInt(1)>>,
               Some(Temp(PyStr(<<"note">>)))>>}

OddSizes == {<<RInt(1), RInt(1)>>, <<RInt(1), RInt(-1), RInt(1)>>,
             <<RInt(1), RInt(1), RInt(1), RInt(1)>>}

\* accepted by the constructor; the model applies no transform to a Grid of zero
\* extent, whose add_primitive divides by the size
ZeroSize == <<RInt(0), RInt(1), RInt(1)>>

OddOrigins == {<<RInt(0), RInt(0)>>, <<RInt(0), RInt(0), RInt(0), RInt(0)>>}

Unit == NDArray(<<1, 1, 1>>, "int64", [i \in Idx(<<1, 1, 1>>) |-> 0])

\* argument tuples of the constructor calls the model makes
ConstructArgs ==
    {<<m, p[1], p[2], p[3]>> : m \in {n \in Materials : Prod(n.shape) <= ChainVoxels}, p \in Profiles}
    \cup {<<m, Profile2[1], Profile2[2], Profile2[3]>> : m \in Materials}
    \cup {<<Zero222, <<RInt(1), RInt(1), RInt(1)>>, <<RInt(0), RInt(0), RInt(0)>>, None>>}
    \cup {<<m, <<RInt(1), RInt(1), RInt(1)>>, <<RInt(0), RInt(0), RInt(0)>>, None>> : m \in OddMaterials}
    \cup {<<Unit, s, <<RInt(0), RInt(0), RInt(0)>>, None>> : s \in OddSizes \cup {ZeroSize}}
    \cup {<<Unit, <<RInt(1), RInt(1), RInt(1)>>, o, None>> : o \in OddOrigins}

DirectionArgs == {<<>>, <<"x">>, <<"y">>, <<"z">>, <<"x", "y">>, <<"z", "x">>,
                  <<"x", "y", "z">>, <<"x", "x">>, <<"a">>, <<"x", "a">>}

\* from_material / to_material lists
SubstituteArgs == {<<<<>>, <<>>>>, <<<<0>>, <<1>>>>, <<<<1>>, <<5>>>>, <<<<0, 1>>, <<1, 0>>>>,
                   <<<<1, 2>>, <<2, 0>>>>, <<<<0, 0>>, <<1, 2>>>>, <<<<0, 1>>, <<2>>>>,
                   <<<<2>>, <<1, 0>>>>}

\* offsets of canvas, in cells
Offsets == {None, Some(<<0, 0, 0>>), Some(<<1, 0, 0>>), Some(<<-1, 0, 0>>), Some(<<0, 1, -1>>),
            Some(<<-5, 0, 0>>), Some(<<0, 5, 0>>)}

\* cells, offset and fill of the canvas calls the model makes
CanvasArgs ==
    {<<c, None, None>> : c \in {None} \cup {Some(s) : s \in Shapes(MaxVoxels)}}
    \cup {<<c, o, None>> : c \in {Some(<<2, 1, 1>>), Some(<<1, 2, 2>>)}, o \in Offsets}
    \cup {<<None, o, f>> : o \in {Some(<<1, 0, 0>>), Some(<<0, 1, -1>>)}, f \in {Some(0), Some(7)}}

\* stencil, selection and periodic of the clean calls the model makes
CleanArgs == {<<1, None, TRUE>>, <<2, None, TRUE>>, <<3, None, TRUE>>, <<3, None, FALSE>>,
              <<3, Some(<<0>>), TRUE>>, <<2, Some(<<1, 2>>), FALSE>>, <<3, Some(<<>>), TRUE>>}

\* vicinity, offset, trigger and periodic of the vicinity_offset calls the model makes
VicinityArgs == {<<1, None, <<>>, TRUE>>, <<1, None, <<>>, FALSE>>, <<2, None, <<>>, FALSE>>,
                 <<1, Some(-1), <<>>, TRUE>>, <<1, None, <<1>>, TRUE>>, <<1, Some(5), <<0, 2>>, FALSE>>}

\* Euler angles (degrees) of the rotations the model applies: whole quarter turns
EulerArgs == {<<0, 0, 0>>, <<90, 0, 0>>, <<0, 90, 0>>, <<0, 0, 270>>, <<180, 0, 0>>,
              <<90, 90, 0>>, <<270, 180, 90>>}

IntVec(v) == [isint |-> TRUE, v |-> VInt(v)]

FloatVec(v) == [isint |-> FALSE, v |-> v]

Finite(e) == [inf |-> FALSE, e |-> e]

Infinite == [inf |-> TRUE, e |-> 0]

\* dimension, center, exponent, fill, inverse and periodic of the add_primitive calls
PrimitiveArgs ==
    {<<IntVec(<<1, 1, 1>>), IntVec(<<0, 0, 0>>), Finite(1), None, FALSE, TRUE>>,
     <<IntVec(<<1, 1, 1>>), IntVec(<<1, 0, 0>>), Finite(1), None, FALSE, FALSE>>,
     <<FloatVec(<<Rat(1, 2), RInt(1), Rat(1, 2)>>), FloatVec(<<Rat(1, 4), RInt(1), Rat(1, 4)>>),
       Infinite, Some(0), TRUE, TRUE>>,
     <<FloatVec(<<RInt(1), RInt(1), RInt(1)>>), FloatVec(<<RInt(0), RInt(0), RInt(0)>>),
       Finite(0), None, FALSE, FALSE>>,
     <<IntVec(<<2, 2, 2>>), IntVec(<<0, 0, 0>>), Finite(2), Some(5), TRUE, FALSE>>}

\* seed positions and weights of the tessellations the model builds
SeedSets == {<<<<<<Rat(1, 4), Rat(1, 2), Rat(1, 2)>>, <<Rat(3, 4), Rat(1, 2), Rat(1, 2)>>>>,
               <<RInt(1), RInt(1)>>>>,
             <<<<<<Rat(1, 16), Rat(1, 2), Rat(1, 2)>>, <<Rat(5, 8), Rat(1, 2), Rat(1, 2)>>>>,
               <<RInt(0), RInt(0)>>>>,
             <<<<<<Rat(3, 4), Rat(1, 4), Rat(1, 2)>>, <<Rat(1, 4), Rat(3, 4), Rat(1, 2)>>,
                 <<Rat(1, 2), Rat(1, 2), Rat(1, 2)>>>>,
               <<RInt(0), Rat(1, 4), Rat(-1, 4)>>>>,
             <<<<<<Rat(7, 8), Rat(7, 8), Rat(1, 8)>>>>, <<RInt(1)>>>>}

\* cells, size, seeds, weights, material and periodic of the tessellations
LaguerreArgs ==
    {<<c, sz, sw[1], sw[2], m, periodic>> :
        c \in {<<2, 1, 1>>, <<3, 1, 1>>, <<4, 1, 1>>, <<2, 2, 1>>, <<1, 3, 2>>},
        sz \in {<<RInt(1), RInt(1), RInt(1)>>, <<RInt(1), RInt(2), Rat(3, 2)>>},
        sw \in SeedSets, m \in {None, Some(<<7, 3, 7>>)}, periodic \in BOOLEAN}

\* values assigned to the properties of a Grid
AssignArgs ==
    {<<"size", s>> : s \in OddSizes \cup {<<RInt(2), RInt(2), RInt(0)>>}}
    \cup {<<"origin", o>> : o \in OddOrigins \cup {<<RInt(1), RInt(1), RInt(1)>>}}
    \cup {<<"material", m>> : m \in OddMaterials \cup {Unit}}

-----------------------------------------------------------------------------
(* The program: construct a Grid, then apply transforms to the latest one  *)

\* the Grid the program holds
cur == IF ret # NoGrid THEN ret ELSE self

\* the buffers of heap h that the objects objs refer to
GC(h, objs) ==
    LET live == UNION {{o.material, o.size, o.origin, o.comments} : o \in objs \ {NoGrid}}
    IN  [a \in live \cap DOMAIN h |-> h[a]]

\* field values of object g
Snapshot(h, g) == [material |-> h[g.material], size |-> h[g.size],
                   origin |-> h[g.origin], comments |-> h[g.comments]]

NoArgs == [none |-> TRUE]

\* no tessellation is in progress
NoPool == [phase |-> "idle"]

Init ==
    /\ heap = <<>>
    /\ self = NoGrid
    /\ ret = NoGrid
    /\ pre = NoGrid
    /\ op = "start"
    /\ args = NoArgs
    /\ err = "none"
    /\ history = <<>>
    /\ comments0 = <<>>
    /\ grid0 = NoGrid
    /\ clock = 0
    /\ budget = 0
    /\ out = <<>>
    /\ pool = NoPool

\* damask.Grid(material, size, origin, comments)
Construct ==
    /\ op = "start"
    /\ \E a \in ConstructArgs :
         LET r == Grid__init__(<<>>, Temp(a[1]), Temp(a[2]), Temp(a[3]), a[4])
         IN  /\ heap' = r.heap
             /\ ret' = r.obj
             /\ err' = r.err
             /\ args' = [material |-> a[1], size |-> a[2], origin |-> a[3], comments |-> a[4]]
             /\ comments0' = IF r.err = "none" THEN r.heap[r.obj.comments] ELSE <<>>
             /\ grid0' = IF r.err = "none" THEN Snapshot(r.heap, r.obj) ELSE NoGrid
             /\ budget' = IF a[2] = ZeroSize THEN 0
                          ELSE IF Len(a[1].shape) = 3 /\ Prod(a[1].shape) > ChainVoxels THEN 1
                          ELSE MaxOps
    /\ self' = NoGrid
    /\ pre' = NoGrid
    /\ op' = "__init__"
    /\ UNCHANGED <<history, clock, out, pool>>

\* the outcome r of calling method name with arguments a on the Grid the program holds
Call(name, a, r) ==
    /\ heap' = GC(r.heap, {cur, r.obj})
    /\ self' = cur
    /\ ret' = r.obj
    /\ pre' = Snapshot(heap, cur)
    /\ op' = name
    /\ args' = a
    /\ err' = r.err
    /\ history' = IF r.err = "none" THEN Append(history, name) ELSE history
    /\ clock' = IF r.err = "none" THEN clock + 1 ELSE clock
    /\ UNCHANGED <<comments0, grid0, budget, out, pool>>

\* the heap as a call on the held Grid finds it: only that Grid is still referenced
heap0 == GC(heap, {cur})

TransformNames == {"add_primitive", "mirror", "flip", "scale", "clean", "renumber", "rotate",
                   "canvas", "substitute", "sort", "vicinity_offset"}

\* an exception propagates to the caller and ends the run; so does, in this model,
\* an assignment to a property or an edit in place
CanCall == /\ cur # NoGrid
           /\ err = "none"
           /\ op \in TransformNames \cup {"__init__"}
           /\ Len(history) < budget

Mirror ==
    /\ CanCall
    /\ \E directions \in DirectionArgs, reflect \in BOOLEAN :
         Call("mirror", [directions |-> directions, reflect |-> reflect],
              mirror(heap0, cur, directions, reflect, clock + 1))

\* a Grid that was flipped once may be flipped once more
CanFlipAgain == /\ cur # NoGrid
                /\ err = "none"
                /\ history = <<"flip">>
                /\ op = "flip"

Flip ==
    /\ CanCall \/ CanFlipAgain
    /\ \E directions \in DirectionArgs :
         Call("flip", [directions |-> directions], flip(heap0, cur, directions, clock + 1))

Renumber == CanCall /\ Call("renumber", NoArgs, renumber(heap0, cur, clock + 1))

Sort == CanCall /\ Call("sort", NoArgs, sort(heap0, cur, clock + 1))

Substitute ==
    /\ CanCall
    /\ \E a \in SubstituteArgs :
         Call("substitute", [from_material |-> a[1], to_material |-> a[2]],
              substitute(heap0, cur, a[1], a[2], clock + 1))

Canvas ==
    /\ CanCall
    /\ \E a \in CanvasArgs :
         Call("canvas", [cells |-> a[1], offset |-> a[2], fill |-> a[3]],
              canvas(heap0, cur, a[1], a[2], a[3], clock + 1))

\* a single-material Grid that was scaled once may be scaled back to its cells
CanScaleBack == /\ cur # NoGrid
                /\ err = "none"
                /\ history = <<"scale">>
                /\ op = "scale"
                /\ Cardinality(Values(grid0.material)) = 1

Scale ==
    /\ \E c \in Shapes(MaxVoxels), periodic \in BOOLEAN :
         /\ IF CanCall THEN TRUE ELSE CanScaleBack /\ c = grid0.material.shape
         /\ Call("scale", [cells |-> c, periodic |-> periodic],
              scale(heap0, cur, c, periodic, clock + 1))

Clean ==
    /\ CanCall
    /\ \E a \in CleanArgs :
         Call("clean", [stencil |-> a[1], selection |-> a[2], periodic |-> a[3]],
              clean(heap0, cur, a[1], a[2], a[3], clock + 1))

VicinityOffset ==
    /\ CanCall
    /\ \E a \in VicinityArgs :
         Call("vicinity_offset",
              [vicinity |-> a[1], offset |-> a[2], trigger |-> a[3], periodic |-> a[4]],
              vicinity_offset(heap0, cur, a[1], a[2], a[3], a[4], clock + 1))

Rotate ==
    /\ CanCall
    /\ \E R \in EulerArgs, fill \in {None, Some(0)} :
         Call("rotate", [R |-> R, fill |-> fill], rotate(heap0, cur, R, fill, clock + 1))

AddPrimitive ==
    /\ CanCall
    /\ \E a \in PrimitiveArgs :
         Call("add_primitive",
              [dimension |-> a[1], center |-> a[2], exponent |-> a[3], fill |-> a[4],
               inverse |-> a[5], periodic |-> a[6]],
              add_primitive(heap0, cur, a[1], a[2], a[3], a[4], a[5], a[6], clock + 1))

\* g.get_grain_boundaries(periodic, directions) on the held Grid: a mesh, no Grid
GetGrainBoundaries ==
    /\ CanCall
    /\ \E directions \in DirectionArgs, periodic \in BOOLEAN :
         LET r == get_grain_boundaries(heap0, cur, periodic, directions)
         IN  /\ out' = r.out
             /\ err' = r.err
             /\ args' = [directions |-> directions, periodic |-> periodic]
    /\ heap' = heap0
    /\ self' = cur
    /\ ret' = NoGrid
    /\ pre' = Snapshot(heap, cur)
    /\ op' = "get_grain_boundaries"
    /\ UNCHANGED <<history, comments0, grid0, clock, budget, pool>>

\* g.size = v, g.origin = v or g.material = v on the held Grid: the setter replaces
\* the field of the object, or raises and leaves it as it was
Assign ==
    /\ CanCall
    /\ \E a \in AssignArgs :
         LET r == IF a[1] = "size" THEN size_setter(heap0, Temp(a[2]))
                  ELSE IF a[1] = "origin" THEN origin_setter(heap0, Temp(a[2]))
                  ELSE material_setter(heap0, Temp(a[2]))
             g == IF a[1] = "size" THEN [cur EXCEPT !.size = r.addr]
                  ELSE IF a[1] = "origin" THEN [cur EXCEPT !.origin = r.addr]
                  ELSE [cur EXCEPT !.material = r.addr]
         IN  /\ heap' = IF r.err = "none" THEN GC(r.heap, {g}) ELSE heap0
             /\ self' = IF r.err = "none" THEN g ELSE cur
             /\ err' = r.err
             /\ args' = [field |-> a[1], value |-> a[2]]
    /\ ret' = NoGrid
    /\ pre' = Snapshot(heap, cur)
    /\ op' = "setter"
    /\ UNCHANGED <<history, comments0, grid0, clock, budget, out, pool>>

\* the caller edits the returned Grid in place: ret.material[0,0,0] = v and
\* ret.comments.append(text); the writes reach every object sharing those buffers
Mutate ==
    /\ CanCall
    /\ op \in TransformNames
    /\ \E v \in {-1} :
         heap' = [heap EXCEPT ![ret.material].at[<<0, 0, 0>>] = v,
                              ![ret.comments] = Append(@, <<"edited">>)]
    /\ op' = "edit"
    /\ args' = NoArgs
    /\ UNCHANGED <<self, ret, pre, err, history, comments0, grid0, clock, budget, out, pool>>

\* Grid.from_Laguerre_tessellation up to pool.map_async: the periodic images, the cell
\* centres and a pool of n workers that is handed the centres in chunks
LaguerreStart ==
    /\ op = "start"
    /\ \E a \in LaguerreArgs, n \in 1..MaxWorkers :
         LET coords == coordinates0_point(a[1], a[2], <<RInt(0), RInt(0), RInt(0)>>)
             points == [p \in 1..Prod(a[1]) |-> coords[indices_C(a[1])[p]]]
             chunksize == map_chunksize(Len(points), n)
             n_chunks == (Len(points) + chunksize - 1) \div chunksize
         IN  /\ pool' = [phase |-> "running",
                         seeds_p |-> periodic_seeds(a[3], a[2], a[6]),
                         weights_p |-> periodic_weights(a[4], a[6]),
                         coords |-> points,
                         chunksize |-> chunksize,
                         queue |-> [c \in 1..n_chunks |-> c],
                         busy |-> [w \in 1..n |-> 0],
                         results |-> [c \in 1..n_chunks |-> None],
                         order |-> <<>>]
             /\ args' = [cells |-> a[1], size |-> a[2], seeds |-> a[3], weights |-> a[4],
                         material |-> a[5], periodic |-> a[6]]
    /\ op' = "map_async"
    /\ UNCHANGED <<heap, self, ret, pre, err, history, comments0, grid0, clock, budget, out>>

\* an idle worker takes the next chunk from the task queue
WorkerPick ==
    /\ pool.phase = "running"
    /\ pool.queue # <<>>
    /\ \E w \in DOMAIN pool.busy :
         /\ pool.busy[w] = 0
         /\ pool' = [pool EXCEPT !.busy[w] = Head(pool.queue), !.queue = Tail(pool.queue)]
    /\ UNCHANGED <<heap, self, ret, pre, op, args, err, history, comments0, grid0, clock,
                   budget, out>>

\* a worker finishes its chunk: _find_closest_seed of every point of the chunk
WorkerFinish ==
    /\ pool.phase = "running"
    /\ \E w \in DOMAIN pool.busy :
         /\ pool.busy[w] # 0
         /\ LET c == pool.busy[w]
                items == chunk_items(c, pool.chunksize, Len(pool.coords))
                values == [k \in 1..Len(items) |->
                              _find_closest_seed(pool.seeds_p, pool.weights_p,
                                                 pool.coords[items[k]])]
            IN  pool' = [pool EXCEPT !.busy[w] = 0,
                                     !.results = store_chunk(pool.results, c, values),
                                     !.order = Append(pool.order, c)]
    /\ UNCHANGED <<heap, self, ret, pre, op, args, err, history, comments0, grid0, clock,
                   budget, out>>

\* pool.join() returns once every chunk is done; result.get() and the Grid
LaguerreGather ==
    /\ pool.phase = "running"
    /\ pool.queue = <<>>
    /\ \A w \in DOMAIN pool.busy : pool.busy[w] = 0
    /\ LET r == tessellation_grid(<<>>, map_result(pool.results, 1), args.cells, args.size,
                                  Len(args.weights), args.material, args.periodic, clock + 1)
       IN  /\ heap' = r.heap
           /\ ret' = r.obj
           /\ err' = r.err
    /\ pool' = [phase |-> "closed", workers |-> Len(pool.busy), order |-> pool.order]
    /\ op' = "from_Laguerre_tessellation"
    /\ clock' = clock + 1
    /\ UNCHANGED <<self, pre, args, history, comments0, grid0, budget, out>>

NextLaguerre == LaguerreStart \/ WorkerPick \/ WorkerFinish \/ LaguerreGather

SpecLaguerre == Init /\ [][NextLaguerre]_vars

-----------------------------------------------------------------------------
(* The program: make a Colormap, reverse it, shade a field with it         *)

\* names of colour models handed to from_range
ModelNames == {<<"r", "g", "b">>, <<"R", "G", "B">>, <<"h", "s", "v">>, <<"H", "s", "l">>,
               <<"x", "y", "z">>, <<"L", "a", "b">>, <<"m", "s", "h">>,
               <<"c", "m", "y", "k">>, <<"r", "g">>, <<>>}

\* the triple of three fractions n/d given as <<n1, d1, n2, d2, n3, d3>>
Triple(q) == <<FRat(q[1], q[2]), FRat(q[3], q[4]), FRat(q[5], q[6])>>

\* <<low, high>> handed to from_range with a model of the given lower-case name
ColorPairs(model) ==
    CASE model = <<"r", "g", "b">> ->
             {<<Triple(<<0, 1, 0, 1, 1, 1>>), Triple(<<0, 1, 0, 1, 0, 1>>)>>,
              <<Triple(<<9, 10, 9, 10, 87, 100>>), Triple(<<0, 1, 0, 1, 1, 1>>)>>,
              <<Triple(<<1, 10, 9, 10, 87, 100>>), Triple(<<1, 1, 0, 1, 1, 1>>)>>,
              <<Triple(<<1, 1, 1, 5, 1, 5>>), Triple(<<1, 1, 1, 1, 1, 1>>)>>,
              <<Triple(<<0, 1, 0, 1, 3, 2>>), Triple(<<0, 1, 0, 1, 0, 1>>)>>,
              <<Triple(<<1, 1, 1, 1, 1, 1>>), Triple(<<-1, 10, 0, 1, 0, 1>>)>>}
      [] model = <<"h", "s", "v">> ->
             {<<Triple(<<0, 1, 1, 1, 1, 1>>), Triple(<<240, 1, 1, 1, 1, 2>>)>>,
              <<Triple(<<360, 1, 1, 1, 1, 1>>), Triple(<<0, 1, 0, 1, 0, 1>>)>>,
              <<Triple(<<361, 1, 1, 1, 1, 1>>), Triple(<<0, 1, 0, 1, 0, 1>>)>>,
              <<Triple(<<0, 1, 6, 5, 1, 1>>), Triple(<<240, 1, 1, 1, 1, 2>>)>>,
              <<Triple(<<0, 1, 1, 1, 1, 1>>), Triple(<<-1, 1, 1, 1, 1, 2>>)>>}
      [] model = <<"h", "s", "l">> ->
             {<<Triple(<<120, 1, 1, 1, 1, 2>>), Triple(<<300, 1, 1, 2, 1, 4>>)>>,
              <<Triple(<<120, 1, 1, 1, 1, 2>>), Triple(<<300, 1, 1, 2, 5, 4>>)>>,
              <<Triple(<<120, 1, 1, 1, -1, 2>>), Triple(<<300, 1, 1, 2, 1, 4>>)>>}
      [] model = <<"x", "y", "z">> ->
             {<<Triple(<<1, 5, 3, 10, 2, 5>>), Triple(<<9, 10, 9, 10, 9, 10>>)>>,
              <<Triple(<<1, 20, 1, 20, -1, 100>>), Triple(<<3, 2, 1, 1, 1, 2>>)>>}
      [] model = <<"l", "a", "b">> ->
             {<<Triple(<<50, 1, 20, 1, -30, 1>>), Triple(<<80, 1, -10, 1, 10, 1>>)>>,
              <<Triple(<<0, 1, 0, 1, 0, 1>>), Triple(<<100, 1, 0, 1, 0, 1>>)>>,
              <<Triple(<<-1, 1, 0, 1, 0, 1>>), Triple(<<100, 1, 0, 1, 0, 1>>)>>}
      [] model = <<"m", "s", "h">> ->
             {<<Triple(<<80, 1, 1, 25, 0, 1>>), Triple(<<80, 1, 1, 1, 3, 1>>)>>,
              <<Triple(<<40, 1, 6, 5, -2, 1>>), Triple(<<90, 1, 9, 10, 1, 1>>)>>,
              <<Triple(<<-5, 1, 4, 1, 400, 1>>), Triple(<<90, 1, 9, 10, 1, 1>>)>>}
      [] OTHER -> {<<Triple(<<0, 1, 0, 1, 1, 1>>), Triple(<<0, 1, 0, 1, 0, 1>>)>>}

\* colours and names handed to Colormap(colors, name)
Palette == <<Triple(<<0, 1, 0, 1, 0, 1>>), Triple(<<1, 1, 1, 1, 1, 1>>),
             Triple(<<1, 2, 1, 5, 9, 10>>), Triple(<<1, 1, 0, 1, 0, 1>>)>>

\* lists of colours of the palette, at most MaxColors long
ColorLists == {c \in UNION {[1..n -> 1..Len(Palette)] : n \in 1..MaxColors} :
                   \A i \in 1..(Len(c) - 1) : c[i] < c[i + 1] \/ (i = 1 /\ c[i] = Len(Palette))}

ColormapNames == {<<"a">>, <<"a", "_", "r">>}

\* 2-d fields, bounds and gap values handed to shade
Fields == {<<<<FInt(2)>>>>, <<<<FInt(0), FInt(0)>>>>, <<<<FInt(-2)>>, <<FInt(-2)>>>>,
           <<<<FInt(1), FInt(2)>>, <<NaN, FInt(3)>>>>, <<<<NaN>>>>}

Bounds == {None, Some(<<FInt(1), FInt(1)>>), Some(<<FInt(-1), FInt(-1)>>),
           Some(<<FInt(3), FInt(1)>>)}

Gaps == {None, Some(FInt(2))}

\* what the cast of a NaN to uint16 may give
NanCasts == {0, 1}

\* field values of Colormap c
ColormapSnapshot(h, c) == [colors |-> h[c.colors], name |-> c.name]

\* the arrays of heap h that the Colormaps objs refer to
ColormapGC(h, objs) ==
    [a \in {o.colors : o \in objs \ {NoColormap}} \cap DOMAIN h |-> h[a]]

\* the outcome r of making the first Colormap
FirstColormap(name, a, r) ==
    /\ heap' = r.heap
    /\ ret' = r.obj
    /\ err' = r.err
    /\ args' = a
    /\ op' = name
    /\ grid0' = IF r.err = "none" THEN ColormapSnapshot(r.heap, r.obj) ELSE NoColormap
    /\ budget' = MaxOps
    /\ self' = NoColormap
    /\ pre' = NoColormap
    /\ UNCHANGED <<history, comments0, clock, out, pool>>

\* Colormap.from_range(low, high, name, N, model)
FromRange ==
    /\ op = "start"
    /\ \E model \in ModelNames, N \in 1..MaxColors :
         \E lh \in ColorPairs(str_lower(model)) :
             FirstColormap("from_range",
                           [low |-> lh[1], high |-> lh[2], name |-> <<"m">>, N |-> N,
                            model |-> model],
                           from_range(<<>>, lh[1], lh[2], <<"m">>, N, model))

\* Colormap(colors, name)
ColormapConstruct ==
    /\ op = "start"
    /\ \E c \in ColorLists, name \in ColormapNames :
         LET colors == [i \in 1..Len(c) |-> Palette[c[i]]]
         IN  FirstColormap("Colormap", [colors |-> colors, name |-> name],
                           Colormap__init__(<<>>, Temp(colors), name))

\* the program holds a Colormap and may call a method on it
CanCallColormap ==
    /\ cur # NoColormap
    /\ err = "none"
    /\ op \in {"from_range", "Colormap", "__invert__", "reversed"}

\* the outcome r of reversing the Colormap the program holds
Reversal(name, a, r) ==
    /\ heap' = ColormapGC(r.heap, {cur, r.obj})
    /\ self' = cur
    /\ ret' = r.obj
    /\ pre' = ColormapSnapshot(heap, cur)
    /\ op' = name
    /\ args' = a
    /\ err' = r.err
    /\ history' = Append(history, name)
    /\ UNCHANGED <<comments0, grid0, clock, budget, out, pool>>

\* ~cmap
Invert ==
    /\ CanCallColormap
    /\ Len(history) < budget
    /\ Reversal("__invert__", NoArgs, __invert__(ColormapGC(heap, {cur}), cur))

\* cmap.reversed(name)
Reversed ==
    /\ CanCallColormap
    /\ Len(history) < budget
    /\ \E name \in {None, Some(<<"b", "_", "r", "_", "r">>)} :
         Reversal("reversed", [name |-> name], reversed(ColormapGC(heap, {cur}), cur, name))

\* cmap.shade(field, bounds, gap)
Shade ==
    /\ CanCallColormap
    /\ \E field \in Fields, bounds \in Bounds, gap \in Gaps, nan_cast \in NanCasts :
         LET r == shade(heap[cur.colors], field, bounds, gap, nan_cast)
         IN  /\ out' = r.out
             /\ err' = r.err
             /\ args' = [field |-> field, bounds |-> bounds, gap |-> gap]
    /\ heap' = ColormapGC(heap, {cur})
    /\ self' = cur
    /\ ret' = NoColormap
    /\ pre' = ColormapSnapshot(heap, cur)
    /\ op' = "shade"
    /\ UNCHANGED <<history, comments0, grid0, clock, budget, pool>>

NextColormap == FromRange \/ ColormapConstruct \/ Invert \/ Reversed \/ Shade

SpecColormap == Init /\ [][NextColormap]_vars

-----------------------------------------------------------------------------
(* A colour taken through the conversions between the colour models        *)

\* a colour and the model it is given in
Colour(model, color) == [model |-> model, color |-> color]

\* valid RGB colours: greys, primaries, mixed colours and one with a component at the
\* breakpoint 0.04045 of the transfer function
RgbInputs == {Triple(<<0, 1, 0, 1, 0, 1>>), Triple(<<1, 1, 1, 1, 1, 1>>),
              Triple(<<1, 2, 1, 2, 1, 2>>), Triple(<<1, 1, 0, 1, 0, 1>>),
              Triple(<<0, 1, 1, 1, 0, 1>>), Triple(<<0, 1, 0, 1, 1, 1>>),
              Triple(<<1, 2, 1, 5, 9, 10>>), Triple(<<1, 5, 3, 5, 3, 5>>),
              Triple(<<9, 10, 9, 10, 87, 100>>), Triple(<<809, 20000, 1, 5, 9, 10>>)}

\* an RGB colour is drawn and no conversion has been applied
InitConvert ==
    /\ heap = <<>>
    /\ self = NoColormap
    /\ ret = NoColormap
    /\ pre = NoColormap
    /\ op = "start"
    /\ args = NoArgs
    /\ err = "none"
    /\ history = <<>>
    /\ comments0 = <<>>
    /\ \E rgb \in RgbInputs : grid0 = Colour("rgb", rgb)
    /\ clock = 0
    /\ budget = MaxSteps
    /\ out = <<>>
    /\ pool = NoPool

\* the colour after k conversions
ColorAfter(k) == IF k = 0 THEN grid0 ELSE history[k]

\* the conversion of the given name takes the current colour from model from to model to
Convert(name, from, to, color) ==
    /\ Len(history) < budget
    /\ ColorAfter(Len(history)).model = from
    /\ op' = name
    /\ args' = ColorAfter(Len(history))
    /\ out' = Colour(to, color)
    /\ history' = Append(history, Colour(to, color))
    /\ UNCHANGED <<heap, self, ret, pre, err, comments0, grid0, clock, budget, pool>>

\* the current colour
Current == ColorAfter(Len(history)).color

Hsv2Rgb == Convert("_hsv2rgb", "hsv", "rgb", _hsv2rgb(Current))

Rgb2Hsv == Convert("_rgb2hsv", "rgb", "hsv", _rgb2hsv(Current))

Hsl2Rgb == Convert("_hsl2rgb", "hsl", "rgb", _hsl2rgb(Current))

Rgb2Hsl == Convert("_rgb2hsl", "rgb", "hsl", _rgb2hsl(Current))

Xyz2Rgb == Convert("_xyz2rgb", "xyz", "rgb", _xyz2rgb(Current))

Rgb2Xyz == Convert("_rgb2xyz", "rgb", "xyz", _rgb2xyz(Current))

Lab2Xyz == Convert("_lab2xyz", "lab", "xyz", _lab2xyz(Current))

Xyz2Lab == Convert("_xyz2lab", "xyz", "lab", _xyz2lab(Current))

Lab2Msh == Convert("_lab2msh", "lab", "msh", _lab2msh(Current))

Msh2Lab == Convert("_msh2lab", "msh", "lab", _msh2lab(Current))

Lab2Rgb == Convert("_lab2rgb", "lab", "rgb", _lab2rgb(Current))

Rgb2Lab == Convert("_rgb2lab", "rgb", "lab", _rgb2lab(Current))

Msh2Rgb == Convert("_msh2rgb", "msh", "rgb", _msh2rgb(Current))

Rgb2Msh == Convert("_rgb2msh", "rgb", "msh", _rgb2msh(Current))

NextConvert ==
    \/ Hsv2Rgb \/ Rgb2Hsv \/ Hsl2Rgb \/ Rgb2Hsl \/ Xyz2Rgb \/ Rgb2Xyz \/ Lab2Xyz
    \/ Xyz2Lab \/ Lab2Msh \/ Msh2Lab \/ Lab2Rgb \/ Rgb2Lab \/ Msh2Rgb \/ Rgb2Msh

SpecConvert == InitConvert /\ [][NextConvert]_vars

-----------------------------------------------------------------------------
(* _interpolate_msh applied to pairs of Msh colours                         *)

\* Msh colours: saturated ones of distant and of close hues, darker and brighter
\* than M = 88, one unsaturated, one of saturation 0.05
MshColors == {Triple(<<80, 1, 1, 1, 3, 1>>), Triple(<<40, 1, 6, 5, -2, 1>>),
              Triple(<<90, 1, 9, 10, 1, 1>>), Triple(<<80, 1, 1, 25, 0, 1>>),
              Triple(<<95, 1, 1, 20, 1, 2>>), Triple(<<80, 1, 1, 1, 5, 2>>)}

\* the fractions handed to _interpolate_msh
MshFracs == {FZero, FRat(1, 4), FHalf, FRat(3, 4), FOne}

InitInterpolate ==
    /\ heap = <<>>
    /\ self = NoColormap
    /\ ret = NoColormap
    /\ pre = NoColormap
    /\ op = "start"
    /\ args = NoArgs
    /\ err = "none"
    /\ history = <<>>
    /\ comments0 = <<>>
    /\ \E low \in MshColors, high \in MshColors : grid0 = <<low, high>>
    /\ clock = 0
    /\ budget = MaxSteps
    /\ out = <<>>
    /\ pool = NoPool

\* one call _interpolate_msh(frac, low, high)
InterpolateMsh ==
    /\ \E frac \in MshFracs :
         /\ args' = [frac |-> frac, low |-> grid0[1], high |-> grid0[2]]
         /\ out' = _interpolate_msh(frac, grid0[1], grid0[2])
    /\ op' = "_interpolate_msh"
    /\ UNCHANGED <<heap, self, ret, pre, err, history, comments0, grid0, clock, budget, pool>>

NextInterpolate == InterpolateMsh

SpecInterpolate == InitInterpolate /\ [][NextInterpolate]_vars

-----------------------------------------------------------------------------
(* util.show_progress: a generator driven by its consumer                   *)

\* the iterables handed to show_progress: every list of up to MaxItems items
ItemLists == UNION {[1..n -> {1, 2}] : n \in 0..MaxItems}

\* the values of N_iter
N_iters == {None} \cup {Some(n) : n \in 0..MaxItems}

\* the values of bar_length
BarLengths == {0, 2, 50}

\* no ProgressBar
NoStatus == [total |-> 0]

\* ProgressBar.__init__ at time now: the object and what it writes to stderr
ProgressBar__init__(total, prefix, bar_length, now) ==
    [obj |-> [total |-> total, prefix |-> prefix, bar_length |-> bar_length,
              time_start |-> now, time_last_update |-> now, fraction_last |-> 0],
     written |-> << [prefix |-> prefix, filled |-> 0, empty |-> bar_length,
                     percent |-> 0, ETA |-> "n/a"] >>]

\* f'{fraction:>4.0%}' for fraction = k/total: the percentage rounded half to even
percent(k, total) ==
    LET q == (100 * k) \div total
        r == (100 * k) % total
    IN  IF 2 * r > total \/ (2 * r = total /\ q % 2 = 1) THEN q + 1 ELSE q

\* n repetitions of a character, '█' * n: none for a negative n
repeat(n) == IF n < 0 THEN 0 ELSE n

\* ProgressBar.update(iteration) on status at time now: the object and what it
\* writes to stderr. fraction_last holds the numerator of the fraction over total.
ProgressBar_update(status, iteration, now) ==
    LET k == iteration + 1
        filled_length == (status.bar_length * k) \div status.total
        redraw == \/ filled_length > (status.bar_length * status.fraction_last) \div status.total
                  \/ now - status.time_last_update > 10
        remaining_time == ((now - status.time_start) * (status.total - k)) \div k
        bar == IF redraw
               THEN << [prefix |-> status.prefix, filled |-> repeat(filled_length),
                        empty |-> repeat(status.bar_length - filled_length),
                        percent |-> percent(k, status.total), ETA |-> remaining_time] >>
               ELSE <<>>
        newline == IF iteration = status.total - 1 THEN <<"\n">> ELSE <<>>
    IN  [obj |-> [status EXCEPT !.time_last_update = IF redraw THEN now ELSE @,
                                !.fraction_last = k],
         written |-> bar \o newline]

\* the generator object show_progress(iterable, N_iter, '', bar_length) before its
\* first next(); the iterable is a sequence or an iterator over the same items
InitProgress ==
    /\ heap = <<>>
    /\ self = NoColormap
    /\ ret = None
    /\ pre = NoColormap
    /\ op = "show_progress"
    /\ \E items \in ItemLists, sequence \in BOOLEAN, N_iter \in N_iters,
          bar_length \in BarLengths :
           args = [iterable |-> items, sequence |-> sequence, N_iter |-> N_iter,
                   prefix |-> "", bar_length |-> bar_length]
    /\ err = "none"
    /\ history = <<>>
    /\ comments0 = <<>>
    /\ grid0 = <<>>
    /\ clock = 0
    /\ budget = MaxTicks
    /\ out = <<>>
    /\ pool = [phase |-> "created", N |-> 0, i |-> 0, status |-> NoStatus]

\* the first next() on the generator: the body runs up to its first yield
GeneratorStart ==
    /\ pool.phase = "created"
    /\ op' = "next"
    /\ IF (args.sequence /\ args.N_iter # None) \/ (~args.sequence /\ args.N_iter = None)
       THEN /\ err' = "ValueError"
            /\ pool' = [pool EXCEPT !.phase = "raised"]
            /\ UNCHANGED <<history, ret, out>>
       ELSE LET N == IF args.sequence THEN Len(args.iterable) ELSE args.N_iter[1]
            IN  /\ err' = "none"
                /\ IF N <= 1
                   THEN /\ \E p \in {[pool EXCEPT !.N = N]} :
                             IF Len(history) < Len(args.iterable)
                             THEN pool' = [p EXCEPT !.phase = "plain"]
                             ELSE pool' = [p EXCEPT !.phase = "returned"]
                        /\ out' = out
                   ELSE LET made == ProgressBar__init__(N, args.prefix, args.bar_length, clock)
                        IN  /\ \E p \in {[pool EXCEPT !.N = N, !.status = made.obj]} :
                                  IF Len(history) < Len(args.iterable)
                                  THEN pool' = [p EXCEPT !.phase = "bar"]
                                  ELSE pool' = [p EXCEPT !.phase = "returned"]
                            /\ out' = out \o made.written
                /\ IF Len(history) < Len(args.iterable)
                   THEN /\ history' = Append(history, args.iterable[Len(history) + 1])
                        /\ ret' = Some(args.iterable[Len(history) + 1])
                   ELSE /\ history' = history
                        /\ ret' = None
    /\ UNCHANGED <<heap, self, pre, args, comments0, grid0, clock, budget>>

\* next() on the generator suspended in the loop without progress bar
GeneratorResumePlain ==
    /\ pool.phase = "plain"
    /\ op' = "next"
    /\ IF Len(history) < Len(args.iterable)
       THEN /\ history' = Append(history, args.iterable[Len(history) + 1])
            /\ ret' = Some(args.iterable[Len(history) + 1])
            /\ pool' = pool
       ELSE /\ history' = history
            /\ ret' = None
            /\ pool' = [pool EXCEPT !.phase = "returned"]
    /\ UNCHANGED <<heap, self, pre, args, err, comments0, grid0, clock, budget, out>>

\* GeneratorResumeBar with the loop ending after N items
GeneratorResumeBar_stops_at_total ==
    /\ pool.phase = "bar"
    /\ op' = "next"
    /\ LET updated == ProgressBar_update(pool.status, pool.i, clock)
       IN  /\ out' = out \o updated.written
           /\ IF Len(history) < Len(args.iterable) /\ Len(history) < pool.N
              THEN /\ history' = Append(history, args.iterable[Len(history) + 1])
                   /\ ret' = Some(args.iterable[Len(history) + 1])
                   /\ pool' = [pool EXCEPT !.status = updated.obj, !.i = @ + 1]
              ELSE /\ history' = history
                   /\ ret' = None
                   /\ pool' = [pool EXCEPT !.status = updated.obj, !.phase = "returned"]
    /\ UNCHANGED <<heap, self, pre, args, err, comments0, grid0, clock, budget>>

\* next() on the generator suspended in the loop with progress bar:
\* status.update(i), then the next item
GeneratorResumeBar ==
    /\ pool.phase = "bar"
    /\ op' = "next"
    /\ LET updated == ProgressBar_update(pool.status, pool.i, clock)
       IN  /\ out' = out \o updated.written
           /\ IF Len(history) < Len(args.iterable)
              THEN /\ history' = Append(history, args.iterable[Len(history) + 1])
                   /\ ret' = Some(args.iterable[Len(history) + 1])
                   /\ pool' = [pool EXCEPT !.status = updated.obj, !.i = @ + 1]
              ELSE /\ history' = history
                   /\ ret' = None
                   /\ pool' = [pool EXCEPT !.status = updated.obj, !.phase = "returned"]
    /\ UNCHANGED <<heap, self, pre, args, err, comments0, grid0, clock, budget>>

\* time passes between two calls of the consumer: eleven seconds
Tick ==
    /\ budget > 0
    /\ pool.phase \in {"created", "plain", "bar"}
    /\ clock' = clock + 11
    /\ budget' = budget - 1
    /\ UNCHANGED <<heap, self, ret, pre, op, args, err, history, comments0, grid0, out, pool>>

\* a next() of the consumer
GeneratorNext == GeneratorStart \/ GeneratorResumePlain \/ GeneratorResumeBar

NextProgress == GeneratorStart \/ GeneratorResumePlain \/ GeneratorResumeBar \/ Tick

\* the consumer's loop calls next() until the generator returns or raises
SpecProgress == InitProgress /\ [][NextProgress]_vars /\ WF_vars(GeneratorNext)

Next == Construct \/ Mirror \/ Flip \/ Renumber \/ Sort \/ Substitute \/ Canvas
        \/ Scale \/ Clean \/ VicinityOffset \/ Rotate \/ AddPrimitive \/ GetGrainBoundaries
        \/ Assign \/ Mutate

Spec == Init /\ [][Next]_vars

-----------------------------------------------------------------------------
(* Properties                                                              *)

\* a transform returned a Grid
Returned == op \in TransformNames /\ err = "none"

\* field values of the returned Grid and of the receiver, as they are now
Result == Snapshot(heap, ret)

Receiver == Snapshot(heap, self)

Buffers(g) == {g.material, g.size, g.origin, g.comments}

\* size/cells of a Grid's field values
Spacing(v) == VDiv(v.size, VInt(v.material.shape))

\* C1: no transform changes its receiver (material, size, origin, comments are as
\* they were when the call started, whether it returned or raised), the returned
\* Grid shares no buffer with the receiver, and an edit in place of the returned
\* Grid's material and comments leaves the receiver as it was.
C1_ReceiverUntouched ==
    /\ op \in TransformNames => Receiver = pre
    /\ Returned => Buffers(ret) \cap Buffers(self) = {}
    /\ op = "edit" => Receiver = pre /\ Result # pre

C1_Witness ==
    /\ op = "edit"
    /\ history = <<"flip">>
    /\ heap[ret.material].at[<<0, 0, 0>>] # pre.material.at[<<0, 0, 0>>]
    /\ Len(heap[ret.comments]) = Len(pre.comments) + 2
    /\ Receiver = pre

\* C2: the comments of the held Grid are the comments of the first Grid followed by
\* one entry per transform applied, the i-th entry starting 'damask.Grid.<i-th method>'.
C2_CommentsAreHistory ==
    (cur # NoGrid /\ op # "edit") =>
        LET c == heap[cur.comments]
            n == Len(comments0)
        IN  /\ Len(c) = n + Len(history)
            /\ SubSeq(c, 1, n) = comments0
            /\ \A i \in 1..Len(history) :
                   /\ Len(c[n + i]) >= 4
                   /\ SubSeq(c[n + i], 1, 4) = <<"damask.", "Grid", ".", history[i]>>

C2_Witness ==
    /\ history = <<"mirror", "canvas">>
    /\ comments0 = <<<<"note">>>>
    /\ Len(heap[cur.comments]) = 3

\* the exception the constructor or a setter is to raise for a material array
ExpectedMaterial(m) ==
    IF Len(m.shape) # 3 THEN "ValueError"
    ELSE IF m.dtype \notin {"float16", "float32", "float64", "int8", "int16", "int32", "int64"}
    THEN "TypeError" ELSE "none"

ExpectedSize(v) == IF Len(v) # 3 \/ \E i \in 1..Len(v) : v[i][1] < 0 THEN "ValueError" ELSE "none"

ExpectedOrigin(v) == IF Len(v) # 3 THEN "ValueError" ELSE "none"

WellFormed(v) ==
    /\ Len(v.material.shape) = 3
    /\ Len(v.size) = 3
    /\ \A i \in 1..3 : v.size[i][1] >= 0
    /\ Len(v.origin) = 3

\* C3: every Grid has a 3-dimensional material, a size of 3 non-negative components
\* and an origin of 3 components; a constructor call or an assignment with anything
\* else raises ValueError (TypeError for a 3-dimensional material that is neither
\* integer nor float), the constructor then creating no Grid and the assignment
\* leaving the Grid as it was.
C3_GridsWellFormed ==
    /\ \A g \in {self, ret} \ {NoGrid} : WellFormed(Snapshot(heap, g))
    /\ op = "__init__" =>
          /\ err = (IF ExpectedMaterial(args.material) # "none" THEN ExpectedMaterial(args.material)
                    ELSE IF ExpectedSize(args.size) # "none" THEN ExpectedSize(args.size)
                    ELSE ExpectedOrigin(args.origin))
          /\ (err # "none") = (ret = NoGrid)
    /\ op = "setter" =>
          /\ err = (IF args.field = "material" THEN ExpectedMaterial(args.value)
                    ELSE IF args.field = "size" THEN ExpectedSize(args.value)
                    ELSE ExpectedOrigin(args.value))
          /\ err # "none" => Receiver = pre

C3_Witness ==
    /\ op = "setter"
    /\ args.field = "size"
    /\ err = "ValueError"
    /\ Len(args.value) = 3
    /\ Receiver = pre

C5_ShapeKept ==
    (Returned /\ op \in {"flip", "substitute", "renumber", "sort", "vicinity_offset",
                         "clean", "add_primitive"}) =>
        /\ Result.material.shape = pre.material.shape
        /\ Result.size = pre.size
        /\ Result.origin = pre.origin

C5_Witness ==
    /\ Returned
    /\ op = "vicinity_offset"
    /\ Result.material # pre.material
    /\ Result.material.shape = <<2, 2, 1>>
    /\ Result.origin = pre.origin

\* C6: canvas to the receiver's own cells with zero (or default) offset returns a
\* Grid equal to the receiver: same cells, material, size and origin; with the
\* default fill no cell holds the fill value.
C6_CanvasIdentity ==
    (op = "canvas" /\ args.cells = Some(pre.material.shape)
                   /\ args.offset \in {None, Some(<<0, 0, 0>>)}) =>
        /\ err = "none"
        /\ Grid__eq__(Result, pre)
        /\ Result.size = pre.size
        /\ Result.origin = pre.origin
        /\ Result.material.shape = pre.material.shape
        /\ \A i \in Idx(pre.material.shape) : Result.material.at[i] = pre.material.at[i]
        /\ args.fill = None =>
              LET top == CHOOSE m \in Values(pre.material) : \A w \in Values(pre.material) : w <= m
              IN  \A i \in Idx(pre.material.shape) : Result.material.at[i] # top + 1

C6_Witness ==
    /\ Returned
    /\ op = "canvas"
    /\ args.cells = Some(<<2, 2, 1>>)
    /\ args.offset = None
    /\ pre.material.shape = <<2, 2, 1>>
    /\ Cardinality(Values(pre.material)) = 3
    /\ Result.material = pre.material

\* C7: renumber returns a Grid whose IDs are exactly 0..N-1, N the number of distinct
\* IDs of the receiver, and any two cells compare (smaller, equal, larger) after
\* renumber as they did before.
C7_RenumberDense ==
    (Returned /\ op = "renumber") =>
        /\ Result.material.shape = pre.material.shape
        /\ Values(Result.material) = 0..(Cardinality(Values(pre.material)) - 1)
        /\ \A i, j \in Idx(pre.material.shape) :
               (Result.material.at[i] < Result.material.at[j])
                   = (pre.material.at[i] < pre.material.at[j])

C7_Witness ==
    /\ Returned
    /\ op = "renumber"
    /\ Values(pre.material) = {0, 2}
    /\ Values(Result.material) = {0, 1}

\* position of index i when x runs fastest and z slowest
PosF(i, shape) == i[1] + shape[1] * (i[2] + shape[2] * i[3])

\* number of distinct IDs of array m that appear for the first time before ID v does
AppearanceRank(m, v) ==
    LET first(w) == CHOOSE p \in 0..(Prod(m.shape) - 1) :
                        /\ \E i \in Idx(m.shape) : PosF(i, m.shape) = p /\ m.at[i] = w
                        /\ \A i \in Idx(m.shape) : m.at[i] = w => PosF(i, m.shape) >= p
    IN  Cardinality({w \in Values(m) : first(w) < first(v)})

\* C8: sort gives the k-th distinct ID met when traversing the cells with x fastest
\* and z slowest the k-th smallest ID of the receiver; cell (0,0,0) then holds the
\* minimum, the set of IDs is unchanged and two cells share an ID after sort exactly
\* when they did before.
C8_SortByAppearance ==
    (Returned /\ op = "sort") =>
        /\ Result.material.shape = pre.material.shape
        /\ \A i \in Idx(pre.material.shape) :
               Cardinality({w \in Values(pre.material) : w < Result.material.at[i]})
                   = AppearanceRank(pre.material, pre.material.at[i])
        /\ Values(Result.material) = Values(pre.material)
        /\ \A w \in Values(pre.material) : Result.material.at[<<0, 0, 0>>] <= w
        /\ \A i, j \in Idx(pre.material.shape) :
               (Result.material.at[i] = Result.material.at[j])
                   = (pre.material.at[i] = pre.material.at[j])

C8_Witness ==
    /\ Returned
    /\ op = "sort"
    /\ pre.material.shape = <<2, 2, 1>>
    /\ pre.material.at[<<0, 0, 0>>] = 2
    /\ pre.material.at[<<1, 0, 0>>] = 2
    /\ pre.material.at[<<0, 1, 0>>] = 0
    /\ pre.material.at[<<1, 1, 0>>] = 1
    /\ Result.material.at[<<0, 1, 0>>] = 1
    /\ Result.material.at[<<1, 1, 0>>] = 2

MirrorSource(k, n, reflect) == IF k < n THEN k ELSE IF reflect THEN 2 * n - 1 - k ELSE 2 * n - 2 - k

\* C10: mirror along the named axes: a named axis of n cells has 2n cells in the
\* result with reflect=True and 2n-2 cells with reflect=False and n >= 2, the appended
\* cells being the reversed layers (all of them, or all but the first and last); an
\* axis that is not named keeps its cells.
C10_MirrorCells ==
    (Returned /\ op = "mirror") =>
        LET n == pre.material.shape
            named(a) == In(valid[a], args.directions)
            keep == [a \in 1..3 |-> ~named(a) \/ (~args.reflect /\ n[a] < 2)]
        IN  /\ \A a \in 1..3 :
                   Result.material.shape[a] = IF keep[a] THEN n[a]
                                              ELSE IF args.reflect THEN 2 * n[a] ELSE 2 * n[a] - 2
            /\ \A i \in Idx(Result.material.shape) :
                   Result.material.at[i]
                       = pre.material.at[[a \in 1..3 |->
                             IF keep[a] THEN i[a] ELSE MirrorSource(i[a], n[a], args.reflect)]]

C10_Witness ==
    /\ Returned
    /\ op = "mirror"
    /\ args.directions = <<"x">>
    /\ ~args.reflect
    /\ pre.material.shape = <<4, 4, 4>>
    /\ Result.material.shape = <<6, 4, 4>>

\* the call add_primitive(dimension=(1,1,1), center=(0,0,0), exponent=1) with the
\* defaults, on the 2 x 2 x 2 all-zero grid of size (1,1,1)
UnitSphereOnZero222 ==
    /\ op = "add_primitive"
    /\ pre.material = Zero222
    /\ pre.size = <<RInt(1), RInt(1), RInt(1)>>
    /\ args.dimension = IntVec(<<1, 1, 1>>)
    /\ args.center = IntVec(<<0, 0, 0>>)
    /\ args.exponent = Finite(1)
    /\ args.fill = None
    /\ ~args.inverse
    /\ args.periodic

\* C11: on the 2 x 2 x 2 all-zero grid of size (1,1,1) the call
\* add_primitive((1,1,1), (0,0,0), 1) with default fill and periodic=True returns a
\* Grid in which some voxel holds the new ID 1 (= max + 1), some voxel still holds
\* 0 and no other ID occurs: N_materials is 2.
C11_PrimitiveOnZeroGrid ==
    UnitSphereOnZero222 =>
        /\ err = "none"
        /\ \E i \in Idx(<<2, 2, 2>>) : Result.material.at[i] = 1
        /\ \E i \in Idx(<<2, 2, 2>>) : Result.material.at[i] = 0
        /\ Cardinality(Values(Result.material)) = 2

C11_Witness ==
    /\ UnitSphereOnZero222
    /\ Returned
    /\ Values(Result.material) = {0, 1}
    /\ Result.material.shape = <<2, 2, 2>>

\* C12: scale(cells) returns a Grid with exactly the requested cells and the
\* receiver's size and origin; a single-material Grid that is scaled to any cells and
\* then back to its own cells has its original material array, whatever the periodic
\* flags of the two calls.
C12_ScaleKeepsExtent ==
    /\ op = "scale" =>
          /\ err = "none"
          /\ Result.material.shape = args.cells
          /\ Result.size = pre.size
          /\ Result.origin = pre.origin
    /\ (Returned /\ history = <<"scale", "scale">>
                 /\ Cardinality(Values(grid0.material)) = 1
                 /\ args.cells = grid0.material.shape) =>
          /\ Result.material.shape = grid0.material.shape
          /\ \A i \in Idx(grid0.material.shape) : Result.material.at[i] = grid0.material.at[i]

C12_Witness ==
    /\ Returned
    /\ history = <<"scale", "scale">>
    /\ grid0.material.shape = <<2, 1, 1>>
    /\ Values(grid0.material) = {2}
    /\ pre.material.shape = <<1, 2, 2>>
    /\ Result.material = grid0.material
    /\ Result.size = grid0.size

\* the letters of a directions argument are all among 'x', 'y', 'z'
OnlyValidLetters(directions) == \A k \in 1..Len(directions) : directions[k] \in {"x", "y", "z"}

\* a directions argument that lists a subset of {'x', 'y', 'z'}, each letter once
IsSubsetOfXYZ(directions) ==
    /\ OnlyValidLetters(directions)
    /\ \A j, k \in 1..Len(directions) : j # k => directions[j] # directions[k]

\* C17 as claimed: mirror, flip and get_grain_boundaries raise ValueError, return
\* neither Grid nor mesh and leave the receiver as it was when directions holds a
\* letter other than 'x', 'y', 'z'; they accept every subset of {'x', 'y', 'z'}.
C17_DirectionsValidated ==
    op \in {"mirror", "flip", "get_grain_boundaries"} =>
        /\ ~OnlyValidLetters(args.directions) =>
              /\ err = "ValueError"
              /\ ret = NoGrid
              /\ out = <<>>
              /\ Receiver = pre
        /\ IsSubsetOfXYZ(args.directions) => err = "none"

\* C18 as claimed: substitute with from_material and to_material of different
\* lengths raises a ValueError or TypeError and returns no Grid.
C18_MismatchedLengthsRaise ==
    (op = "substitute" /\ Len(args.from_material) # Len(args.to_material)) =>
        /\ err \in {"ValueError", "TypeError"}
        /\ ret = NoGrid

\* the k-th (from 0) of the seeds and their periodic images: seed k mod N, moved by
\* -1, 0 or +1 box lengths along x, y and z
SeedImage(k) ==
    LET n == Len(args.seeds)
        move == IF args.periodic
                THEN <<((k \div n) % 3) - 1, ((k \div (3 * n)) % 3) - 1, (k \div (9 * n)) - 1>>
                ELSE <<0, 0, 0>>
    IN  [a \in 1..3 |-> RAdd(args.seeds[(k % n) + 1][a], RMul(RInt(move[a]), args.size[a]))]

\* |p - s|^2 - w for image k
ImageDistance(k, p) ==
    LET d == VSub(p, SeedImage(k))
    IN  RSub(RAdd(RAdd(RMul(d[1], d[1]), RMul(d[2], d[2])), RMul(d[3], d[3])),
             args.weights[(k % Len(args.seeds)) + 1])

\* the material the tessellation is to give the cell with index i
LaguerreMaterial(i) ==
    LET n == Len(args.seeds)
        p == [a \in 1..3 |-> RMul(Rat(2 * i[a] + 1, 2), RDiv(args.size[a], RInt(args.cells[a])))]
        K == IF args.periodic THEN 0..(27 * n - 1) ELSE 0..(n - 1)
        k == CHOOSE c \in K : /\ \A j \in K : ~RLess(ImageDistance(j, p), ImageDistance(c, p))
                              /\ \A j \in K : j < c => RLess(ImageDistance(c, p), ImageDistance(j, p))
    IN  IF args.material = None THEN k % n ELSE args.material[1][(k % n) + 1]

\* C13: from_Laguerre_tessellation gives every cell the seed whose power distance
\* |p - s|^2 - w to the cell centre p is smallest, the first on ties, over the seeds
\* or, when periodic, their 27 images (then reduced modulo the number of seeds),
\* mapped through material when given; this holds for every size of the worker
\* pool and every order in which the workers take and finish the chunks.
C13_LaguerreIsSequential ==
    op = "from_Laguerre_tessellation" =>
        /\ err = "none"
        /\ Result.material.shape = args.cells
        /\ Result.size = args.size
        /\ \A i \in Idx(args.cells) : Result.material.at[i] = LaguerreMaterial(i)

C13_Witness ==
    /\ op = "from_Laguerre_tessellation"
    /\ pool.workers = 2
    /\ pool.order = <<2, 1, 4, 3>>
    /\ args.periodic
    /\ args.cells = <<4, 1, 1>>
    /\ args.material = None
    /\ Result.material.at[<<0, 0, 0>>] = 0
    /\ Result.material.at[<<2, 0, 0>>] = 1
    /\ Result.material.at[<<3, 0, 0>>] = 0

\* a reversal (~cmap or cmap.reversed) has just returned
JustReversed == op \in {"__invert__", "reversed"} /\ err = "none"

\* C15: ~~cmap == cmap: after an even number of reversals the Colormap compares
\* equal to the first one (same length, same colour at each index) and after an odd
\* number it holds the colours of the first one from the last to the first; each reversal
\* returns a new Colormap with an array of its own and leaves the colours and the
\* name of its operand as they were.
C15_DoubleInversionIsIdentity ==
    JustReversed =>
        /\ ret # NoColormap
        /\ ret.colors # self.colors
        /\ ColormapSnapshot(heap, self) = pre
        /\ Len(history) % 2 = 0 => __eq__(heap[ret.colors], grid0.colors)
        /\ Len(history) % 2 = 1 =>
               /\ Len(heap[ret.colors]) = Len(grid0.colors)
               /\ \A i \in 1..Len(grid0.colors) :
                      heap[ret.colors][i] = grid0.colors[Len(grid0.colors) - i + 1]

C15_Witness ==
    /\ history = <<"__invert__", "__invert__">>
    /\ JustReversed
    /\ Len(grid0.colors) = 3
    /\ grid0.colors[1] # grid0.colors[3]
    /\ grid0.colors[1] # grid0.colors[2]
    /\ __eq__(heap[ret.colors], grid0.colors)
    /\ ~__eq__(heap[self.colors], grid0.colors)

\* the colour c lies outside the range the named model allows
ColorOutOfRange(name, c) ==
    CASE name = <<"r", "g", "b">> ->
             \E i \in 1..3 : FLess(c[i], FZero) \/ FLess(FOne, c[i])
      [] name \in {<<"h", "s", "v">>, <<"h", "s", "l">>} ->
             \/ \E i \in 1..3 : FLess(c[i], FZero)
             \/ FLess(FInt(360), c[1])
             \/ FLess(FOne, c[2])
             \/ FLess(FOne, c[3])
      [] name = <<"l", "a", "b">> -> FLess(c[1], FZero)
      [] OTHER -> FALSE

\* C16: from_range fails with ValueError and returns no Colormap when the model name,
\* compared without regard to case, is not one of rgb, hsv, hsl, xyz, lab and msh, or
\* when low or high has an rgb component outside [0, 1], an hsv or hsl component below
\* 0 or above (360, 1, 1), or a lab L below 0; every other input, any xyz or msh among
\* them, is accepted and gives a Colormap.
C16_FromRangeValidation ==
    op = "from_range" =>
        IF \/ str_lower(args.model) \notin {<<"r", "g", "b">>, <<"h", "s", "v">>,
                                           <<"h", "s", "l">>, <<"x", "y", "z">>,
                                           <<"l", "a", "b">>, <<"m", "s", "h">>}
           \/ ColorOutOfRange(str_lower(args.model), args.low)
           \/ ColorOutOfRange(str_lower(args.model), args.high)
        THEN err = "ValueError" /\ ret = NoColormap /\ heap = <<>>
        ELSE err = "none" /\ ret # NoColormap /\ Len(heap[ret.colors]) = args.N

C16_Witness ==
    /\ op = "from_range"
    /\ args.model = <<"H", "s", "l">>
    /\ args.high[3] = FRat(5, 4)
    /\ ~FLess(args.high[1], FZero) /\ ~FLess(FInt(360), args.high[1])
    /\ err = "ValueError"
    /\ ret = NoColormap

\* the unmasked values of the field handed to shade
ShadedValues == {v \in field_values(args.field) : shade_mask(v, args.gap)}

\* shade has returned an image for an input without span: a field whose unmasked values
\* are all one value and no bounds, or bounds with low = high
ShadedZeroSpan ==
    /\ op = "shade"
    /\ err = "none"
    /\ IF args.bounds = None THEN Cardinality(ShadedValues) = 1
       ELSE args.bounds[1][1] = args.bounds[1][2]

\* C19 as claimed: for every input without span, be its value positive, zero or
\* negative, shade normalises with a range of hi > lo that has the value at its
\* centre, and divides by no zero.
C19_ZeroSpanIsWidened ==
    ShadedZeroSpan =>
        /\ FLess(out.lo, out.hi)
        /\ FDivInt(FAdd(out.lo, out.hi), 2) =
               (IF args.bounds = None THEN CHOOSE v \in ShadedValues : TRUE
                ELSE args.bounds[1][1])
        /\ out.warnings = {}

\* the colour x of the named model as RGB
toRGB(model, x) ==
    CASE model = <<"r", "g", "b">> -> x
      [] model = <<"h", "s", "v">> -> _hsv2rgb(x)
      [] model = <<"h", "s", "l">> -> _hsl2rgb(x)
      [] model = <<"x", "y", "z">> -> _xyz2rgb(x)
      [] model = <<"l", "a", "b">> -> _lab2rgb(x)
      [] model = <<"m", "s", "h">> -> _msh2rgb(x)

\* the tolerance of 0.01 on a component of a colour
ColorTolerance == Dec(0, 10000000)

\* the colours a and b agree within the tolerance in every component
ColorsAgree(a, b) == \A i \in 1..3 : FLeq(FAbs(FSub(a[i], b[i])), ColorTolerance)

\* from_range has returned a Colormap
RangeMade == op = "from_range" /\ err = "none"

\* C14 as claimed: for every valid low, high and model and every N >= 1, from_range
\* returns a Colormap of exactly N colours whose first is low converted to RGB and whose
\* last is high converted to RGB, each within the tolerance.
C14_RangeEndsAtBounds ==
    RangeMade =>
        /\ Len(heap[ret.colors]) = args.N
        /\ ColorsAgree(heap[ret.colors][1], toRGB(str_lower(args.model), args.low))
        /\ ColorsAgree(heap[ret.colors][args.N], toRGB(str_lower(args.model), args.high))

\* the tolerance of 0.0001 on a component of a colour taken there and back
RoundTripTolerance == Dec(0, 100000)

\* C20 as claimed: a colour that comes from a valid RGB colour and is taken from its model
\* to another and back by the two conversions between them returns to itself within the
\* tolerance in every component; this covers rgb<->msh and the adjacent pairs rgb<->hsv,
\* rgb<->hsl, rgb<->xyz, xyz<->lab and lab<->msh in either order.
C20_ConversionsRoundTrip ==
    \A k \in 2..Len(history) :
        ColorAfter(k).model = ColorAfter(k - 2).model =>
            \A i \in 1..3 :
                FLeq(FAbs(FSub(ColorAfter(k).color[i], ColorAfter(k - 2).color[i])),
                     RoundTripTolerance)

\* cells, offset and fill as canvas takes them from its arguments
CanvasCells == IF args.cells = None THEN pre.material.shape ELSE args.cells[1]

CanvasOffset == IF args.offset = None THEN <<0, 0, 0>> ELSE args.offset[1]

CanvasFill ==
    IF args.fill = None
    THEN (CHOOSE m \in Values(pre.material) : \A w \in Values(pre.material) : w <= m) + 1
    ELSE args.fill[1]

\* the cell of the receiver that cell i of the new grid shows, by offset
CanvasSource(i) == <<i[1] + CanvasOffset[1], i[2] + CanvasOffset[2], i[3] + CanvasOffset[3]>>

StencilCell(c, n, periodic) ==
    IF periodic THEN c % n ELSE IF c < 0 THEN 0 ELSE IF c > n - 1 THEN n - 1 ELSE c

\* number of cells holding v in the cube of the given edge around cell i of m, which
\* reaches edge \div 2 cells below i on each axis
StencilCount(m, i, edge, periodic, v) ==
    Cardinality({d \in (0..(edge - 1)) \X (0..(edge - 1)) \X (0..(edge - 1)) :
                    m.at[<<StencilCell(i[1] + d[1] - (edge \div 2), m.shape[1], periodic),
                           StencilCell(i[2] + d[2] - (edge \div 2), m.shape[2], periodic),
                           StencilCell(i[3] + d[3] - (edge \div 2), m.shape[3], periodic)>>] = v})

\* the smallest of the most frequent IDs in that cube
StencilMode(m, i, edge, periodic) ==
    CHOOSE v \in Values(m) :
        \A w \in Values(m) :
            \/ StencilCount(m, i, edge, periodic, w) < StencilCount(m, i, edge, periodic, v)
            \/ /\ StencilCount(m, i, edge, periodic, w) = StencilCount(m, i, edge, periodic, v)
               /\ v <= w

\* clean has returned the receiver smoothed with cubes of the given edge
CleanedWith(edge) ==
    /\ err = "none"
    /\ Result.material.shape = pre.material.shape
    /\ \A i \in Idx(pre.material.shape) :
           Result.material.at[i] =
               IF args.selection = None \/ pre.material.at[i] \in Range(args.selection[1])
               THEN StencilMode(pre.material, i, edge, args.periodic)
               ELSE pre.material.at[i]
    /\ (Cardinality(Values(pre.material)) = 1 \/ args.stencil = 1) =>
           Result.material = pre.material

VicinityIDs(m, i, vicinity, periodic) ==
    {m.at[<<StencilCell(i[1] + d[1], m.shape[1], periodic),
            StencilCell(i[2] + d[2], m.shape[2], periodic),
            StencilCell(i[3] + d[3], m.shape[3], periodic)>>] :
        d \in ((-vicinity)..vicinity) \X ((-vicinity)..vicinity) \X ((-vicinity)..vicinity)}

\* cell i of the receiver is to be offset
InVicinity(i) ==
    IF args.trigger = <<>>
    THEN VicinityIDs(pre.material, i, args.vicinity, args.periodic) # {pre.material.at[i]}
    ELSE (VicinityIDs(pre.material, i, args.vicinity, args.periodic) \cap Range(args.trigger))
             \ {pre.material.at[i]} # {}

\* the offset vicinity_offset adds
VicinityOffsetBy ==
    IF args.offset = None
    THEN (CHOOSE m \in Values(pre.material) : \A w \in Values(pre.material) : w <= m) + 1
    ELSE args.offset[1]

\* C23: vicinity_offset(vicinity, offset, trigger, periodic) adds offset (default
\* max(material) + 1) to the ID of exactly the voxels whose cubic neighbourhood of edge
\* 1 + 2 vicinity holds an ID other than the voxel's own (empty trigger) or an ID of
\* trigger other than the voxel's own (non-empty trigger), and leaves every other voxel
\* as it is; a grid of a single material comes back with identical material.
C23_VicinityOffsetsBoundaryVoxels ==
    op = "vicinity_offset" =>
        /\ err = "none"
        /\ Result.material.shape = pre.material.shape
        /\ \A i \in Idx(pre.material.shape) :
               Result.material.at[i] = IF InVicinity(i)
                                       THEN pre.material.at[i] + VicinityOffsetBy
                                       ELSE pre.material.at[i]
        /\ Cardinality(Values(pre.material)) = 1 => Result.material = pre.material

\* trigger [1] on a grid holding 0 and 1: a voxel of ID 0 is offset, a voxel of ID 1 has
\* no trigger but its own around it and stays
C23_Witness ==
    /\ Returned
    /\ op = "vicinity_offset"
    /\ args.trigger = <<1>>
    /\ Values(pre.material) = {0, 1}
    /\ \E i \in Idx(pre.material.shape) :
           pre.material.at[i] = 0 /\ Result.material.at[i] = 2
    /\ \E i \in Idx(pre.material.shape) :
           pre.material.at[i] = 1 /\ Result.material.at[i] = 1

\* array m after one exact quarter turn in the plane of its axes a and b (1..3): the
\* two axes change places and cell (i, j) of the plane shows cell (j, n - 1 - i), n
\* the length of m along b
QuarterTurn(m, a, b) ==
    [m EXCEPT !.shape = [m.shape EXCEPT ![a] = m.shape[b], ![b] = m.shape[a]],
              !.at = [i \in Idx([m.shape EXCEPT ![a] = m.shape[b], ![b] = m.shape[a]]) |->
                         m.at[[i EXCEPT ![a] = i[b], ![b] = m.shape[b] - 1 - i[a]]]]]

\* array m after k quarter turns in the plane of its axes a and b
RECURSIVE QuarterTurns(_, _, _, _)
QuarterTurns(m, k, a, b) ==
    IF k = 0 THEN m ELSE QuarterTurns(QuarterTurn(m, a, b), k - 1, a, b)

\* the receiver's material turned by the last Euler angle in plane (x,y), then the
\* middle one in plane (y,z), then the first one in plane (x,y)
TurnedMaterial ==
    QuarterTurns(QuarterTurns(QuarterTurns(pre.material, (args.R[3] \div 90) % 4, 1, 2),
                              (args.R[2] \div 90) % 4, 2, 3),
                 (args.R[1] \div 90) % 4, 1, 2)

\* rotate was called with Euler angles that are whole multiples of 90 degrees
QuarterRotation == op = "rotate" /\ \A a \in 1..3 : args.R[a] % 90 = 0

\* C24: rotate(R) applies the Euler angles as plane rotations, the last angle in plane
\* (x,y), then the middle one in plane (y,z), then the first one in plane (x,y); when
\* every angle is a whole multiple of 90 degrees each step is an exact array rotation, so
\* the IDs of the receiver are kept with their numbers of cells, the default fill ID
\* max(material) + 1 is in no cell, and the identity rotation returns a grid equal to
\* the receiver in cells, material, size and origin.
C24_QuarterTurnsAreExact ==
    QuarterRotation =>
        /\ err = "none"
        /\ Result.material = TurnedMaterial
        /\ \A v \in Values(pre.material) \cup Values(Result.material) :
               Cardinality({i \in Idx(Result.material.shape) : Result.material.at[i] = v})
                   = Cardinality({i \in Idx(pre.material.shape) : pre.material.at[i] = v})
        /\ args.fill = None =>
               \A v \in Values(Result.material) : \E w \in Values(pre.material) : v <= w
        /\ args.R = <<0, 0, 0>> =>
               /\ Grid__eq__(Result, pre)
               /\ Result.material = pre.material
               /\ Result.size = pre.size
               /\ Result.origin = pre.origin

\* the angles (90, 90, 0) on a grid of 2 x 1 x 1 cells of two IDs: the turn in plane
\* (y,z) comes before the one in plane (x,y) and the result has 1 x 2 x 1 cells
C24_Witness ==
    /\ Returned
    /\ QuarterRotation
    /\ args.R = <<90, 90, 0>>
    /\ pre.material.shape = <<2, 1, 1>>
    /\ Cardinality(Values(pre.material)) = 2
    /\ Result.material.shape = <<1, 2, 1>>
    /\ Result.material.at[<<0, 0, 0>>] = pre.material.at[<<0, 0, 0>>]
    /\ Result.material.at[<<0, 1, 0>>] = pre.material.at[<<1, 0, 0>>]

\* the axes (1..3) that the directions of the call name
RequestedAxes == {a \in 1..3 : \E k \in 1..Len(args.directions) :
                                   args.directions[k] = <<"x", "y", "z">>[a]}

\* number of the node q = (ix, iy, iz) of the receiver, x running fastest
NodeNumber(q) ==
    q[1] + q[2] * (pre.material.shape[1] + 1)
         + q[3] * (pre.material.shape[1] + 1) * (pre.material.shape[2] + 1)

\* the node next to q along axis b
NodeAlong(q, b) == [q EXCEPT ![b] = @ + 1]

\* the four corner nodes of the cell face normal to axis a whose lowest corner is node q
FaceCorners(a, q) ==
    <<NodeNumber(q),
      NodeNumber(NodeAlong(q, (a % 3) + 1)),
      NodeNumber(NodeAlong(NodeAlong(q, (a % 3) + 1), ((a + 1) % 3) + 1)),
      NodeNumber(NodeAlong(q, ((a + 1) % 3) + 1))>>

\* the faces between cells of the receiver that are neighbours along a requested axis
\* inside the grid and differ in material
InnerBoundaryFaces ==
    UNION {{FaceCorners(a, q) :
               q \in {c \in Idx(pre.material.shape) :
                         /\ c[a] >= 1
                         /\ pre.material.at[c] # pre.material.at[[c EXCEPT ![a] = @ - 1]]}} :
           a \in RequestedAxes}

\* the faces of the mesh get_grain_boundaries returned
MeshFaces == {out.connectivity[n] : n \in 1..Len(out.connectivity)}

\* get_grain_boundaries was asked for at least one direction, all of them valid
BoundariesAsked ==
    /\ op = "get_grain_boundaries"
    /\ OnlyValidLetters(args.directions)
    /\ args.directions # <<>>

\* C25: get_grain_boundaries in non-periodic mode gives exactly one quad face for every
\* pair of cells that are neighbours along a requested direction inside the grid and
\* differ in material ID, none for the pair of first and last layer on the outer faces,
\* none on a grid of a single material and none for directions not requested.
C25_InnerBoundariesOnly ==
    (op = "get_grain_boundaries" /\ ~args.periodic) =>
        /\ BoundariesAsked =>
               /\ err = "none"
               /\ MeshFaces = InnerBoundaryFaces
               /\ Len(out.connectivity) = Cardinality(InnerBoundaryFaces)
               /\ Cardinality(Values(pre.material)) = 1 => out.connectivity = <<>>
        /\ ~BoundariesAsked => out = <<>>

\* directions x and y on a grid of 2 x 2 x 1 cells of three IDs, not periodic: the mesh
\* has a face between the two cells along x that differ and none on the outer faces
C25_Witness ==
    /\ op = "get_grain_boundaries"
    /\ err = "none"
    /\ ~args.periodic
    /\ args.directions = <<"x", "y">>
    /\ pre.material.shape = <<2, 2, 1>>
    /\ Cardinality(Values(pre.material)) = 3
    /\ pre.material.at[<<0, 0, 0>>] # pre.material.at[<<1, 0, 0>>]
    /\ FaceCorners(1, <<1, 0, 0>>) \in MeshFaces
    /\ FaceCorners(1, <<0, 0, 0>>) \notin MeshFaces
    /\ Len(out.connectivity) >= 3

\* the cell faces of the receiver normal to axis a, by their lowest corner node
CellFaces(a) ==
    {FaceCorners(a, q) :
        q \in {n \in Idx([b \in 1..3 |-> pre.material.shape[b] + 1]) :
                  \A b \in (1..3) \ {a} : n[b] < pre.material.shape[b]}}

\* number of nodes of the receiver
NodeCount ==
    (pre.material.shape[1] + 1) * (pre.material.shape[2] + 1) * (pre.material.shape[3] + 1)

\* C30: every vertex index of the connectivity get_grain_boundaries produces lies in
\* [0, (cells[0]+1)*(cells[1]+1)*(cells[2]+1)), for every grid, every subset of
\* directions and both periodic modes, and the four vertices of each face are the corner
\* nodes of one cell face normal to a direction that was requested.
C30_FacesOnNodes ==
    (op = "get_grain_boundaries" /\ err = "none") =>
        \A n \in 1..Len(out.connectivity) :
            /\ \A k \in 1..4 : out.connectivity[n][k] \in 0..(NodeCount - 1)
            /\ \E a \in RequestedAxes : out.connectivity[n] \in CellFaces(a)

\* a periodic grid of 2 x 2 x 1 cells of three IDs with all directions asked for: the
\* mesh has a face on the far outer face along x, whose corners are the last nodes
C30_Witness ==
    /\ op = "get_grain_boundaries"
    /\ err = "none"
    /\ args.periodic
    /\ args.directions = <<"x", "y", "z">>
    /\ pre.material.shape = <<2, 2, 1>>
    /\ Cardinality(Values(pre.material)) = 3
    /\ \E n \in 1..Len(out.connectivity) :
           \E k \in 1..4 : out.connectivity[n][k] = NodeCount - 1
    /\ FaceCorners(1, <<2, 1, 0>>) \in MeshFaces

\* the index the claim gives value v: round(clip((v-lo)/(hi-lo),0,1)*(N-1)); it is a
\* number only for a range of hi # lo
C26_Index(v) ==
    np_round(FMulInt(np_clip01(FDiv(FSub(v, out.lo), FSub(out.hi, out.lo))),
                     Len(pre.colors) - 1))

\* C26: shade gives every value of the field that is neither NaN nor the gap the
\* colour at index round(clip((v-lo)/(hi-lo),0,1)*(N-1)), an index in 0..N-1 (0 for
\* values below lo, N-1 for values above hi), with alpha 255; every NaN or gap pixel
\* has alpha 0; bounds given in either order are used as (min, max).
C26_ShadeIndexAndAlpha ==
    op = "shade" =>
        /\ err = "none"
        /\ \A r \in 1..Len(args.field) : \A c \in 1..Len(args.field[r]) :
               LET v == args.field[r][c]
               IN  IF shade_mask(v, args.gap)
                   THEN /\ out.hi # out.lo
                        /\ C26_Index(v) \in 0..(Len(pre.colors) - 1)
                        /\ FLess(v, out.lo) => C26_Index(v) = 0
                        /\ FLess(out.hi, v) => C26_Index(v) = Len(pre.colors) - 1
                        /\ out.image[r][c] = shade_pixel(pre.colors[C26_Index(v) + 1], TRUE)
                   ELSE out.image[r][c][4] = 0
        /\ (args.bounds # None /\ args.bounds[1][1] # args.bounds[1][2]) =>
               /\ out.lo = FMin(args.bounds[1][1], args.bounds[1][2])
               /\ out.hi = FMax(args.bounds[1][1], args.bounds[1][2])

\* (1-t)*a + t*b on (M, s, h)
MshLinear(t, a, b) ==
    [i \in 1..3 |-> FAdd(FMul(FSub(FOne, t), a[i]), FMul(t, b[i]))]

\* both ends saturated and their hues more than pi/3 apart
MshDiverging ==
    /\ FLess(Dec(0, 50000000), args.low[2])
    /\ FLess(Dec(0, 50000000), args.high[2])
    /\ FLess(FDivInt(FPi, 3), FAbs(FSub(args.low[3], args.high[3])))

\* one end with saturation below 0.05, the other above
MshOneUnsaturated ==
    \/ FLess(args.low[2], Dec(0, 50000000)) /\ FLess(Dec(0, 50000000), args.high[2])
    \/ FLess(Dec(0, 50000000), args.low[2]) /\ FLess(args.high[2], Dec(0, 50000000))

\* the pivot with hue h
MshPivot(h) == <<FMax(args.low[1], FMax(args.high[1], FInt(88))), FZero, h>>

\* the path through the pivot, the pivot's hue being h_low on the lower half and
\* h_high on the upper half
MshThroughPivot(h_low, h_high) ==
    IF FLess(args.frac, FHalf)
    THEN MshLinear(FMulInt(args.frac, 2), args.low, MshPivot(h_low))
    ELSE MshLinear(FSub(FMulInt(args.frac, 2), FOne), MshPivot(h_high), args.high)

\* C27 as claimed: with both ends saturated and their hues more than pi/3 apart the
\* result is linear from low to the pivot (max(low.M, high.M, 88), 0, 0) at 2*frac for
\* frac < 0.5, and from that pivot to high at 2*frac-1 otherwise; with neither this nor
\* one end unsaturated it is (1-frac)*low + frac*high.
C27_PivotOfHueZero ==
    op = "_interpolate_msh" =>
        /\ MshDiverging => out = MshThroughPivot(FZero, FZero)
        /\ (~MshDiverging /\ ~MshOneUnsaturated) =>
               out = MshLinear(args.frac, args.low, args.high)

\* C27 amended: as claimed in M and s, but the pivot's hue is the one adjust_hue
\* gives it from the saturated end of its half.
C27_PivotOfAdjustedHue ==
    op = "_interpolate_msh" =>
        /\ MshDiverging =>
               out = MshThroughPivot(adjust_hue(args.low, MshPivot(FZero)),
                                     adjust_hue(args.high, MshPivot(FZero)))
        /\ (~MshDiverging /\ ~MshOneUnsaturated) =>
               out = MshLinear(args.frac, args.low, args.high)

\* a diverging pair interpolated inside its lower half, the pivot brighter than both
\* ends, and a pair interpolated plainly
C27_Witness ==
    /\ op = "_interpolate_msh"
    /\ MshDiverging
    /\ args.frac = FRat(1, 4)
    /\ FLess(args.low[1], FInt(88)) /\ FLess(args.high[1], FInt(88))
    /\ out[3] # MshThroughPivot(FZero, FZero)[3]
    /\ out[1] = MshThroughPivot(FZero, FZero)[1]

\* N_iter is given for a sequence or missing for another iterable
ProgressMisused ==
    \/ args.sequence /\ args.N_iter # None
    \/ ~args.sequence /\ args.N_iter = None

\* what the generator has yielded so far is the beginning of the iterable, the item
\* handed out last is the last of these, and a generator that has returned has yielded
\* all of it; a misused generator has yielded nothing and raises ValueError
ProgressSafe ==
    IF ProgressMisused
    THEN /\ history = <<>>
         /\ pool.phase \in {"created", "raised"}
         /\ pool.phase = "raised" <=> err = "ValueError"
    ELSE /\ err = "none"
         /\ pool.phase \in {"created", "plain", "bar", "returned"}
         /\ Len(history) <= Len(args.iterable)
         /\ \A k \in 1..Len(history) : history[k] = args.iterable[k]
         /\ pool.phase \in {"plain", "bar"} => (history # <<>> /\ ret = Some(history[Len(history)]))
         /\ pool.phase = "returned" => history = args.iterable

\* the generator is exhausted or has raised
ProgressFinished == pool.phase \in {"returned", "raised"}

\* C28: show_progress yields exactly the items of the iterable, each once and in the
\* original order, for every length and every bar_length, and the loop over it comes
\* to its end; given N_iter for a sequence, or none for an iterable that is no
\* sequence, it raises ValueError and yields nothing.
C28_ProgressYieldsTheItems == []ProgressSafe /\ <>ProgressFinished

\* an iterator of three items with a repeated one, announced as two, has been
\* consumed to its end with a bar of 50 characters redrawn as time passed
C28_Witness ==
    /\ pool.phase = "returned"
    /\ ~args.sequence
    /\ args.N_iter = Some(2)
    /\ args.bar_length = 50
    /\ history = args.iterable
    /\ Len(history) = 3
    /\ history[2] = history[3]
    /\ clock > 0
    /\ Len(out) > 3

\* a second flip has returned
FlippedTwice == op = "flip" /\ err = "none" /\ history = <<"flip", "flip">>

\* the axes of the direction letters d
FlipAxes(d) == {valid_index(d[k]) : k \in 1..Len(d)}

\* arrays a and b have the same shape and the same entry in every cell
SameArray(a, b) == a.shape = b.shape /\ \A i \in Idx(a.shape) : a.at[i] = b.at[i]

\* C29: a grid flipped twice along the same distinct directions d equals the grid it
\* came from, in the material of every cell, in cells, size and origin; and a grid
\* flipped along axis a and then along another axis b has the material of the grid
\* flipped along b and then along a.
C29_FlipIsInvolution ==
    FlippedTwice =>
        /\ SameArray(pre.material, np_flip(grid0.material, FlipAxes(args.directions))) =>
               /\ Grid__eq__(Result, grid0)
               /\ Grid__eq__(grid0, Result)
               /\ Result.material.shape = grid0.material.shape
        /\ \A a, b \in 0..2 :
               (/\ a # b
                /\ FlipAxes(args.directions) = {b}
                /\ SameArray(pre.material, np_flip(grid0.material, {a}))) =>
                   SameArray(Result.material, np_flip(np_flip(grid0.material, {b}), {a}))

\* a grid of two materials that no flip along x leaves as it is was flipped along
\* x and y and then along x and y again
C29_Witness ==
    /\ FlippedTwice
    /\ Len(args.directions) = 2
    /\ SameArray(pre.material, np_flip(grid0.material, FlipAxes(args.directions)))
    /\ ~SameArray(pre.material, grid0.material)
    /\ Prod(grid0.material.shape) > 2
    /\ Grid__eq__(Result, grid0)

=============================================================================
